---- MODULE Spec2Model ----
(***************************************************************************)
(* Election-Hub: the election phase function (lib/election-helpers.ts)    *)
(* and the vote-casting handler (app/api/vote/[shareCode]/cast/route.ts)  *)
(* as a state machine over the Election, Voter and Vote tables, with the  *)
(* organizer's PATCH, the public status read, voter registration, the     *)
(* geofence test (lib/geo.ts) and the rate limiter (lib/rate-limit.ts).   *)
(*                                                                         *)
(* The handler is an async function: every `await` of a database call is  *)
(* a point where other requests run, so each database call is one step.   *)
(* The database is PostgreSQL reached through Prisma (README.md), whose   *)
(* transactions run at READ COMMITTED: a statement sees the rows that     *)
(* were committed when it started, a DELETE waits for a concurrent        *)
(* transaction that already deleted the same row, and skips the row when  *)
(* that transaction commits.                                               *)
(***************************************************************************)
EXTENDS Integers, Sequences, FiniteSets, TLC

VARIABLES
    now,        \* wall clock (new Date()), in abstract instants
    elections,  \* Election table: shareCode -> election record (with positions)
    voters,     \* Voter table: voter id -> [electionId, emailVerified]
    votes,      \* Vote table: the committed rows
    req,        \* cast requests: request -> local variables of POST, and its response
    subject,    \* the election record handed to getElectionPhase (phase checks)
    derived,    \* the phase getElectionPhase returned for subject at now
    patch,      \* organizer PATCH requests: request -> local variables of PATCH
    reader,     \* public status reads: request -> local variables of GET
    reg,        \* voter registrations: request -> local variables of POST
    cache,      \* lib/cache.ts store: key (share code) -> entry
    probe,      \* the arguments handed to isPointInRegion, and what it returned
    store,      \* lib/rate-limit.ts stores: bucket -> key -> timestamps
    caller      \* a caller of rateLimit: the config it passes, the results it got

vars == <<now, elections, voters, votes, req, subject, derived, patch, reader, reg, cache,
         probe, store, caller>>

\* the variables of the handlers other than vote casting
adminVars == <<patch, reader, reg, cache>>

\* the variables of lib/geo.ts and lib/rate-limit.ts
libVars == <<probe, store, caller>>

(***************************************************************************)
(* Bounds                                                                  *)
(***************************************************************************)
NumRequests == 2
MaxBallotLen == 2
MaxInstant == 3

\* a schedule instant that is not set (null); instants themselves are >= 0
Null == -1

IsSet(d) == d # Null

Requests == 1..NumRequests

(***************************************************************************)
(* lib/election-helpers.ts: getElectionPhase                               *)
(***************************************************************************)
Phases ==
    {"draft", "before_registration", "registration", "between_phases", "voting", "closed"}

\* line 14, with the null check made on the wrong field
PastVoteEnd_wrongField(election, t) ==
    IsSet(election.votingStart) /\ IsSet(election.votingEnd) /\ t > election.votingEnd

PastVoteEnd(election, t) ==
    IsSet(election.votingEnd) /\ t > election.votingEnd

InVoting(election, t) ==
    /\ IsSet(election.votingStart) /\ t >= election.votingStart
    /\ IsSet(election.votingEnd) /\ t <= election.votingEnd

\* lines 28-29 as the date-driven version of the file has them (lines 96-97):
\* the registration window needs both of its ends
AutoPhase_regEndRequired(election, t) ==
    IF PastVoteEnd(election, t) THEN "closed"
    ELSE IF InVoting(election, t) THEN "voting"
    ELSE IF election.status = "voting" /\ IsSet(election.votingStart)
            /\ t >= election.votingStart THEN "voting"
    ELSE IF election.status = "voting" /\ ~IsSet(election.votingStart) THEN "voting"
    ELSE IF IsSet(election.registrationStart) /\ t < election.registrationStart
         THEN "before_registration"
    ELSE IF IsSet(election.registrationStart) /\ t >= election.registrationStart
            /\ IsSet(election.registrationEnd) /\ t <= election.registrationEnd
         THEN "registration"
    ELSE IF IsSet(election.registrationEnd) /\ t > election.registrationEnd
         THEN "between_phases"
    ELSE election.status

AutoPhase(election, t) ==
    IF PastVoteEnd(election, t) THEN "closed"
    ELSE IF InVoting(election, t) THEN "voting"
    ELSE IF election.status = "voting" /\ IsSet(election.votingStart)
            /\ t >= election.votingStart THEN "voting"
    ELSE IF election.status = "voting" /\ ~IsSet(election.votingStart) THEN "voting"
    ELSE IF IsSet(election.registrationStart) /\ t < election.registrationStart
         THEN "before_registration"
    ELSE IF IsSet(election.registrationStart) /\ t >= election.registrationStart
            /\ (~IsSet(election.registrationEnd) \/ t <= election.registrationEnd)
         THEN "registration"
    ELSE IF IsSet(election.registrationEnd) /\ t > election.registrationEnd
         THEN "between_phases"
    ELSE election.status

\* lines 41-49 as the date-driven version of the file has them (lines 101-106):
\* the voting window is looked at although status is still registration
ManualRegistrationPhase_votingDates(election, t) ==
    IF InVoting(election, t) THEN "voting"
    ELSE IF IsSet(election.registrationStart) /\ t < election.registrationStart
         THEN "before_registration"
    ELSE IF IsSet(election.registrationEnd) /\ t > election.registrationEnd
         THEN "between_phases"
    ELSE "registration"

ManualRegistrationPhase(election, t) ==
    IF IsSet(election.registrationStart) /\ t < election.registrationStart
         THEN "before_registration"
    ELSE IF IsSet(election.registrationEnd) /\ t > election.registrationEnd
         THEN "between_phases"
    ELSE "registration"

\* lines 51-56 with the whole voting window consulted, not only its end
ManualVotingPhase_window(election, t) ==
    IF IsSet(election.votingEnd) /\ t > election.votingEnd THEN "closed"
    ELSE IF IsSet(election.votingStart) /\ t < election.votingStart THEN "between_phases"
    ELSE "voting"

ManualVotingPhase(election, t) ==
    IF IsSet(election.votingEnd) /\ t > election.votingEnd THEN "closed" ELSE "voting"

\* lines 6-7 moved below the auto-mode block: the schedule is consulted first
getElectionPhase_scheduleFirst(election, t) ==
    IF election.autoTransition THEN AutoPhase(election, t)
    ELSE IF election.status = "draft" THEN "draft"
    ELSE IF election.status = "closed" THEN "closed"
    ELSE IF election.status = "registration" THEN ManualRegistrationPhase(election, t)
    ELSE IF election.status = "voting" THEN ManualVotingPhase(election, t)
    ELSE election.status

getElectionPhase(election, t) ==
    IF election.status = "draft" THEN "draft"
    ELSE IF election.status = "closed" THEN "closed"
    ELSE IF election.autoTransition THEN AutoPhase(election, t)
    ELSE IF election.status = "registration" THEN ManualRegistrationPhase(election, t)
    ELSE IF election.status = "voting" THEN ManualVotingPhase(election, t)
    ELSE election.status


(***************************************************************************)
(* The tables                                                              *)
(***************************************************************************)
\* Election ids double as share codes (both are unique keys of Election).
ShareCodes == {"e1", "e2"}

\* what a client may put in the URL: a share code, or one no election has
ShareCodeInputs == ShareCodes \cup {"e0"}

VoterIds == {"v1", "v2", "v3"}

\* what a client may put in body.voterId: a voter's id, or one no voter has
VoterIdInputs == VoterIds \cup {"v0"}

PositionIds == {"p1", "p2", "q1"}

CandidateIds == {"a", "b", "c"}

\* election -> its positions, each with its candidates (include: positions.candidates)
PositionsOf(e) ==
    IF e = "e1" THEN [p \in {"p1", "p2"} |-> IF p = "p1" THEN {"a", "b"} ELSE {"c"}]
    ELSE [p \in {"q1"} |-> {}]

\* the title of each position and the name of each candidate of the election
LabelsOf(e) ==
    [x \in (DOMAIN PositionsOf(e)) \cup UNION {PositionsOf(e)[p] : p \in DOMAIN PositionsOf(e)}
        |-> "t0"]

\* the organizer who owns each election
OwnerOf(e) == IF e = "e2" THEN "org2" ELSE "org1"

NoDates ==
    [registrationStart |-> Null, registrationEnd |-> Null,
     votingStart |-> Null, votingEnd |-> Null]

FullDates ==
    [registrationStart |-> 1, registrationEnd |-> 2, votingStart |-> 2, votingEnd |-> 3]

Statuses == {"draft", "registration", "voting", "closed"}

Election(id, status, auto, dates, allowUpdate) ==
    [id |-> id, status |-> status, autoTransition |-> auto,
     registrationStart |-> dates.registrationStart,
     registrationEnd |-> dates.registrationEnd,
     votingStart |-> dates.votingStart, votingEnd |-> dates.votingEnd,
     allowVoteUpdate |-> allowUpdate, positions |-> PositionsOf(id),
     labels |-> LabelsOf(id), title |-> "t0",
     securityLevel |-> "casual", requireLocation |-> FALSE,
     organizerId |-> OwnerOf(id), regions |-> <<>>, customFields |-> <<>>]

\* Election tables the casting runs start from: e1 scheduled, in any status and
\* mode, with and without vote updates; e2 an election the organizer has closed.
InitElections ==
    { [e \in ShareCodes |->
         IF e = "e1" THEN Election("e1", st, auto, FullDates, upd)
         ELSE Election("e2", "closed", FALSE, NoDates, TRUE)] :
      st \in Statuses, auto \in BOOLEAN, upd \in BOOLEAN }

\* v1 and v2 registered in e1, v3 in e2; v2 has not verified its email
InitVoters ==
    [v \in VoterIds |->
        [electionId |-> IF v = "v3" THEN "e2" ELSE "e1", emailVerified |-> v # "v2",
         email |-> v, deviceFingerprint |-> "none", regionId |-> "none"]]

\* body.votes: 1..MaxBallotLen entries {positionId, candidateId}. The entries a
\* client picks from: each candidate of e1 under its own position, candidate a
\* under p2 (not its position), and q1, a position of the other election.
BallotEntries ==
    {v \in [positionId : PositionIds, candidateId : CandidateIds] :
        \/ v.positionId = "p1" /\ v.candidateId \in {"a", "b"}
        \/ v.positionId = "p2" /\ v.candidateId \in {"a", "c"}
        \/ v.positionId = "q1" /\ v.candidateId = "c"}

RECURSIVE SeqsUpTo(_, _)
SeqsUpTo(S, n) ==
    IF n = 0 THEN {<<>>}
    ELSE LET shorter == SeqsUpTo(S, n - 1)
         IN  shorter \cup {Append(q, x) : q \in {q \in shorter : Len(q) = n - 1}, x \in S}

Ballots == SeqsUpTo(BallotEntries, MaxBallotLen) \ {<<>>}

(***************************************************************************)
(* cast/route.ts: the local variables of one POST                          *)
(***************************************************************************)
NoElection == Election("none", "draft", FALSE, NoDates, FALSE)

Idle ==
    [pc |-> "idle", election |-> NoElection, phase |-> "none", voterId |-> "none",
     data |-> {}, isUpdate |-> FALSE, snap |-> {}, txDel |-> {}, undone |-> {},
     resp |-> "none"]

\* The request answers an error `resp` and is over; of its variables only the
\* phase it had resolved is kept with the response.
Respond(r, resp, phase) ==
    req' = [req EXCEPT ![r] = [Idle EXCEPT !.pc = "done", !.resp = resp, !.phase = phase]]

(***************************************************************************)
(* The other handlers: their requests and local variables                  *)
(***************************************************************************)
PatchIds == {"o1"}
ReaderIds == {"g1", "g2"}
RegIds == {"n1", "n2"}

\* session.user.id as auth() gives it: an organizer, or nobody signed in
Organizers == {"org1", "org2"}
Sessions == Organizers \cup {"none"}

\* The body of a PATCH: `keys` are the keys the JSON object has, the other
\* fields give their values (of no meaning for a key that is absent). The
\* position, candidate and region operations carry the id they address in
\* `target` and the title or name they set in `label`; a region operation
\* carries `geometry` and `bufferMeters` as well, and in `given` which of
\* name, geometry and bufferMeters its object defines.
NoBody ==
    [keys |-> {}, status |-> "draft", autoTransition |-> FALSE,
     registrationStart |-> Null, registrationEnd |-> Null,
     votingStart |-> Null, votingEnd |-> Null,
     securityLevel |-> "casual", requireLocation |-> FALSE,
     allowVoteUpdate |-> FALSE, title |-> "t0",
     target |-> "none", label |-> "t0",
     geometry |-> [type |-> "none", center |-> <<0, 0>>, radius |-> 0,
                   coordinates |-> <<>>],
     bufferMeters |-> 0, given |-> {}]

PatchIdle ==
    [pc |-> "idle", method |-> "PATCH", id |-> "none", election |-> NoElection,
     hasVoters |-> FALSE, hasVotes |-> FALSE,
     body |-> NoBody, phase |-> "none", resp |-> "none"]

\* `started` is `now` of cache line 17. The last five fields are history, not
\* state of the program: whether the call began after an invalidation of its
\* key, whether it read the database before one, the instant of its
\* store.set and whether that came before a mutation was answered, and the
\* call whose entry it was served ("none" when it ran the loader itself)
ReaderIdle ==
    [pc |-> "idle", key |-> "none", started |-> 0, election |-> NoElection,
     phase |-> "none", resp |-> "none",
     afterInvalidate |-> FALSE, loadedBefore |-> FALSE, storedAt |-> Null,
     storedBefore |-> FALSE, from |-> "none"]

\* data.latitude and data.longitude: a point, or not given
NoCoordinate == [given |-> FALSE, point |-> <<0, 0>>]

\* `regionId` is assignedRegionId; `voterId` and `emailVerified` are what the
\* 409 and the 200 carry
RegIdle ==
    [pc |-> "idle", election |-> NoElection, email |-> "none",
     deviceFingerprint |-> "none", at |-> NoCoordinate, regionId |-> "none",
     voterId |-> "none", emailVerified |-> FALSE, resp |-> "none",
     customFieldValues |-> <<>>, field |-> "none"]

\* an absent entry of the cache Map; `by` is the call that stored the entry
NoEntry == [present |-> FALSE, data |-> NoElection, expiresAt |-> 0, by |-> "none"]

\* lib/geo.ts: a coordinate is a point of the plane that touches the earth
\* where the election is held, <<metres east, metres north>> of its origin.
\* A GeoRegion has its type, the centre and radius of a circle (radius 0 when
\* it has none) and the ring coordinates[0] of a polygon or rectangle (empty
\* when it has none).
NoGeometry == [type |-> "none", center |-> <<0, 0>>, radius |-> 0, coordinates |-> <<>>]

NoProbe ==
    [point |-> <<0, 0>>, geometry |-> NoGeometry, bufferMeters |-> 0,
     evaluated |-> FALSE, inside |-> FALSE]

\* lib/rate-limit.ts: the buckets (stores by name) and the client keys
Buckets == {"custom"}
ClientKeys == {"ip1", "ip2"}

NoConfig == [limit |-> 0, windowSeconds |-> 0]

NoCaller == [config |-> NoConfig, results |-> <<>>]

HandlersIdle ==
    /\ patch = [o \in PatchIds |-> PatchIdle]
    /\ reader = [g \in ReaderIds |-> ReaderIdle]
    /\ reg = [n \in RegIds |-> RegIdle]
    /\ cache = [k \in ShareCodeInputs |-> NoEntry]

StoresEmpty == store = [b \in Buckets |-> [k \in ClientKeys |-> <<>>]]

LibIdle ==
    /\ probe = NoProbe
    /\ StoresEmpty
    /\ caller = NoCaller

AdminIdle == HandlersIdle /\ LibIdle

(***************************************************************************)
(* lib/geo.ts: isPointInRegion                                             *)
(*                                                                         *)
(* haversineDistance gives the metres between two coordinates. The code    *)
(* only compares a distance with a number of metres, or adds and           *)
(* subtracts squares of distances (line 87), so the model keeps the square *)
(* of the distance, an integer for the coordinates of the plane.           *)
(***************************************************************************)
MaxSide == 4
MaxBuffer == 2
MaxRadius == 3

\* lines 54-67, squared
haversineDistance2(a, b) ==
    (a[1] - b[1]) * (a[1] - b[1]) + (a[2] - b[2]) * (a[2] - b[2])

\* `distance <= metres` for the distance whose square is d2
AtMost(d2, metres) == metres >= 0 /\ d2 <= metres * metres

\* lines 87-91 with t left as it is computed, not brought into [0, 1]
distanceToSegment2_noClamp(p, a, b) ==
    LET pa == haversineDistance2(p, a)
        pb == haversineDistance2(p, b)
        ab == haversineDistance2(a, b)
        top == pa - pb + ab
        bottom == 2 * ab
        dx == bottom * (p[1] - a[1]) - top * (b[1] - a[1])
        dy == bottom * (p[2] - a[2]) - top * (b[2] - a[2])
    IN IF ab = 0 THEN [num |-> pa, den |-> 1]
       ELSE [num |-> dx * dx + dy * dy, den |-> bottom * bottom]

\* lines 73-92, squared, as the fraction num / den: t is top / bottom brought
\* into [0, 1], the projection is a + t (b - a)
distanceToSegment2(p, a, b) ==
    LET pa == haversineDistance2(p, a)
        pb == haversineDistance2(p, b)
        ab == haversineDistance2(a, b)
        top == pa - pb + ab
        bottom == 2 * ab
        t == IF top < 0 THEN 0 ELSE IF top > bottom THEN bottom ELSE top
        dx == bottom * (p[1] - a[1]) - t * (b[1] - a[1])
        dy == bottom * (p[2] - a[2]) - t * (b[2] - a[2])
    IN IF ab = 0 THEN [num |-> pa, den |-> 1]
       ELSE [num |-> dx * dx + dy * dy, den |-> bottom * bottom]

\* the edges of a ring, by the index of their first coordinate (line 35)
Edges(ring) == 1..(Len(ring) - 1)

\* booleanPointInPolygon of @turf (lines 1, 30, 31), for a polygon of one
\* closed ring: a point on an edge is inside; any other point is inside when
\* the ray from it to the east crosses an odd number of edges
OnEdge(p, a, b) ==
    /\ p[2] * (a[1] - b[1]) + a[2] * (b[1] - p[1]) + b[2] * (p[1] - a[1]) = 0
    /\ (a[1] - p[1]) * (b[1] - p[1]) <= 0
    /\ (a[2] - p[2]) * (b[2] - p[2]) <= 0

RayCrosses(p, a, b) ==
    /\ (a[2] > p[2]) # (b[2] > p[2])
    /\ IF b[2] > a[2]
       THEN (p[1] - a[1]) * (b[2] - a[2]) < (b[1] - a[1]) * (p[2] - a[2])
       ELSE (p[1] - a[1]) * (b[2] - a[2]) > (b[1] - a[1]) * (p[2] - a[2])

booleanPointInPolygon(p, ring) ==
    \/ \E i \in Edges(ring) : OnEdge(p, ring[i], ring[i + 1])
    \/ Cardinality({i \in Edges(ring) : RayCrosses(p, ring[i], ring[i + 1])}) % 2 = 1

\* line 26 without the buffer
CircleTest_noBuffer(point, geometry, bufferMeters) ==
    AtMost(haversineDistance2(point, geometry.center), geometry.radius)

\* lines 20-26
CircleTest(point, geometry, bufferMeters) ==
    AtMost(haversineDistance2(point, geometry.center), geometry.radius + bufferMeters)

\* lines 11-52. `geometry.radius` of line 19 is a truth test: a radius of 0
\* fails it like a missing one, and the circle falls through to line 51.
isPointInRegion(point, geometry, bufferMeters) ==
    IF geometry.type = "circle" /\ geometry.radius # 0
    THEN CircleTest(point, geometry, bufferMeters)
    ELSE IF geometry.type \in {"polygon", "rectangle"} /\ geometry.coordinates # <<>>
    THEN \/ booleanPointInPolygon(point, geometry.coordinates)
         \/ /\ bufferMeters > 0
            /\ \E i \in Edges(geometry.coordinates) :
                 LET dist == distanceToSegment2(point, geometry.coordinates[i],
                                                geometry.coordinates[i + 1])
                 IN dist.num <= bufferMeters * bufferMeters * dist.den
    ELSE FALSE

(***************************************************************************)
(* isPointInRegion on its own: one point, one region, one buffer           *)
(***************************************************************************)
\* points around the shapes, as far out as the widest buffer and one more
Grid ==
    {<<x, y>> : x \in (0 - MaxBuffer - 1)..(MaxSide + MaxBuffer + 1),
                y \in (0 - MaxBuffer - 1)..(MaxSide + MaxBuffer + 1)}

Circle(center, radius) ==
    [type |-> "circle", center |-> center, radius |-> radius, coordinates |-> <<>>]

Ring(type, coordinates) ==
    [type |-> type, center |-> <<0, 0>>, radius |-> 0, coordinates |-> coordinates]

\* a rectangle (4 corners and the first again), a triangle, and an L
Rectangle ==
    Ring("rectangle", << <<0, 0>>, <<MaxSide, 0>>, <<MaxSide, MaxSide - 1>>,
                         <<0, MaxSide - 1>>, <<0, 0>> >>)

Triangle ==
    Ring("polygon", << <<0, 0>>, <<MaxSide, 0>>, <<0, MaxSide>>, <<0, 0>> >>)

Angle ==
    Ring("polygon", << <<0, 0>>, <<MaxSide, 0>>, <<MaxSide, 2>>, <<2, 2>>,
                       <<2, MaxSide>>, <<0, MaxSide>>, <<0, 0>> >>)

Geometries ==
    {Circle(<<1, 1>>, radius) : radius \in 0..MaxRadius}
    \cup {Rectangle, Triangle, Angle}

InitGeo ==
    /\ now = 0
    /\ elections = [e \in ShareCodes |-> Election(e, "draft", FALSE, NoDates, FALSE)]
    /\ voters = InitVoters
    /\ votes = {}
    /\ req = [r \in Requests |-> Idle]
    /\ subject = NoElection
    /\ derived = "none"
    /\ HandlersIdle
    /\ \E point \in Grid, geometry \in Geometries, bufferMeters \in 0..MaxBuffer :
         probe = [NoProbe EXCEPT !.point = point, !.geometry = geometry,
                                 !.bufferMeters = bufferMeters]
    /\ StoresEmpty
    /\ caller = NoCaller

EvaluateRegion ==
    /\ ~probe.evaluated
    /\ probe' = [probe EXCEPT !.evaluated = TRUE,
                    !.inside = isPointInRegion(probe.point, probe.geometry,
                                               probe.bufferMeters)]
    /\ UNCHANGED <<now, elections, voters, votes, req, subject, derived, adminVars,
                   store, caller>>

NextGeo == EvaluateRegion

SpecGeo == InitGeo /\ [][NextGeo]_vars

(***************************************************************************)
(* lib/rate-limit.ts: rateLimit                                            *)
(*                                                                         *)
(* `now` is Date.now() in milliseconds here. The caller passes its own     *)
(* RateLimitConfig on every call, so its timestamps are in the store       *)
(* "custom" (line 38); a key the store does not hold reads as the empty    *)
(* list (line 43). The cleanup timer of lines 69-85 is not part of what    *)
(* follows.                                                                *)
(***************************************************************************)
MaxClock == 3000
MaxCalls == 4
MaxLimit == 2

\* what the clock advances by between two calls
ClockSteps == {500, 1000}

Configs == {[limit |-> l, windowSeconds |-> w] : l \in 1..MaxLimit, w \in 1..2}

\* line 40
WindowMs(config) == config.windowSeconds * 1000

\* line 44 keeping the timestamp that is exactly one window old
Recent_inclusive(timestamps, cutoff) == SelectSeq(timestamps, LAMBDA t : t >= cutoff)

\* line 44
Recent(timestamps, cutoff) == SelectSeq(timestamps, LAMBDA t : t > cutoff)

\* line 46 letting one call more through
LimitReached_offByOne(timestamps, config) == Len(timestamps) > config.limit

\* line 46
LimitReached(timestamps, config) == Len(timestamps) >= config.limit

\* line 48 rounding down
Ceil_floor(a, b) == a \div b

\* Math.ceil(a / b) for b > 0
Ceil(a, b) == 0 - ((0 - a) \div b)

\* lines 39-56: the store entry and the result of one call at instant t
rateLimit(stored, config, t) ==
    LET timestamps == Recent(stored, t - WindowMs(config))
    IN IF LimitReached(timestamps, config)
       THEN [timestamps |-> timestamps, allowed |-> FALSE, remaining |-> 0,
             retryAfterSeconds |-> Ceil(timestamps[1] + WindowMs(config) - t, 1000)]
       ELSE [timestamps |-> Append(timestamps, t), allowed |-> TRUE,
             remaining |-> config.limit - (Len(timestamps) + 1),
             retryAfterSeconds |-> 0]

InitRateLimit ==
    /\ now = 0
    /\ elections = [e \in ShareCodes |-> Election(e, "draft", FALSE, NoDates, FALSE)]
    /\ voters = InitVoters
    /\ votes = {}
    /\ req = [r \in Requests |-> Idle]
    /\ subject = NoElection
    /\ derived = "none"
    /\ HandlersIdle
    /\ probe = NoProbe
    /\ StoresEmpty
    /\ \E config \in Configs : caller = [NoCaller EXCEPT !.config = config]

\* one call rateLimit(key, caller.config)
RateLimitCall ==
    /\ Len(caller.results) < MaxCalls
    /\ \E key \in ClientKeys :
         LET result == rateLimit(store["custom"][key], caller.config, now)
         IN /\ store' = [store EXCEPT !["custom"][key] = result.timestamps]
            /\ caller' = [caller EXCEPT !.results = Append(@,
                   [key |-> key, at |-> now, allowed |-> result.allowed,
                    remaining |-> result.remaining,
                    retryAfterSeconds |-> result.retryAfterSeconds])]
    /\ UNCHANGED <<now, elections, voters, votes, req, subject, derived, adminVars, probe>>

\* time passes between two calls
ClockAdvance ==
    /\ \E d \in ClockSteps : now + d <= MaxClock /\ now' = now + d
    /\ UNCHANGED <<elections, voters, votes, req, subject, derived, adminVars, libVars>>

NextRateLimit == RateLimitCall \/ ClockAdvance

SpecRateLimit == InitRateLimit /\ [][NextRateLimit]_vars

(***************************************************************************)
(* lib/rate-limit.ts: the cleanup timer (lines 69-85) next to rateLimit    *)
(*                                                                         *)
(* The module is loaded at instant 0; setInterval runs the callback every  *)
(* 300 000 ms from then on, never early. Windows of one and of ten minutes *)
(* stand for those shorter and longer than the 300 000 ms the callback     *)
(* keeps.                                                                  *)
(***************************************************************************)
MaxLongClock == 600000

LongClockSteps == {150000, 300000}

LongConfigs == {[limit |-> l, windowSeconds |-> w] : l \in 1..MaxLimit, w \in {60, 600}}

\* line 78 for one key; a key left without timestamps is deleted (line 79),
\* which reads as the empty list at line 43
Pruned(timestamps, t) == SelectSeq(timestamps, LAMBDA x : x > t - 300000)

InitCleanup ==
    /\ now = 0
    /\ elections = [e \in ShareCodes |-> Election(e, "draft", FALSE, NoDates, FALSE)]
    /\ voters = InitVoters
    /\ votes = {}
    /\ req = [r \in Requests |-> Idle]
    /\ subject = NoElection
    /\ derived = "none"
    /\ HandlersIdle
    /\ probe = NoProbe
    /\ StoresEmpty
    /\ \E config \in LongConfigs : caller = [NoCaller EXCEPT !.config = config]

\* lines 74-83: one run of the interval callback
Cleanup ==
    /\ now >= 300000
    /\ store' = [b \in Buckets |-> [k \in ClientKeys |-> Pruned(store[b][k], now)]]
    /\ UNCHANGED <<now, elections, voters, votes, req, subject, derived, adminVars,
                   probe, caller>>

\* minutes pass between two calls
LongClockAdvance ==
    /\ \E d \in LongClockSteps : now + d <= MaxLongClock /\ now' = now + d
    /\ UNCHANGED <<elections, voters, votes, req, subject, derived, adminVars, libVars>>

NextCleanup == RateLimitCall \/ LongClockAdvance \/ Cleanup

SpecCleanup == InitCleanup /\ [][NextCleanup]_vars

\* line 49, letting a closed election through
PhaseAllowsCast_notClosed(phase) == phase \in {"voting", "closed"}

PhaseAllowsCast(phase) == phase = "voting"

\* lines 53-55 without the electionId scope
VoterFound_anyElection(voterId, electionId) ==
    voterId \in DOMAIN voters

VoterFound(voterId, electionId) ==
    voterId \in DOMAIN voters /\ voters[voterId].electionId = electionId

\* lines 66-79 without the seenPositions check
ViolationAt_noSeen(election, ballot, i) ==
    IF ballot[i].positionId \notin DOMAIN election.positions THEN "400_position"
    ELSE IF ballot[i].candidateId \notin election.positions[ballot[i].positionId]
         THEN "400_candidate"
    ELSE "ok"

\* one turn of the loop over data.votes: what entry i is rejected with
ViolationAt(election, ballot, i) ==
    IF \E j \in 1..(i - 1) : ballot[j].positionId = ballot[i].positionId
         THEN "400_duplicate"
    ELSE IF ballot[i].positionId \notin DOMAIN election.positions THEN "400_position"
    ELSE IF ballot[i].candidateId \notin election.positions[ballot[i].positionId]
         THEN "400_candidate"
    ELSE "ok"

\* the loop returns at the first entry that is rejected
ValidateBallot(election, ballot) ==
    LET bad == {i \in 1..Len(ballot) : ViolationAt(election, ballot, i) # "ok"}
    IN  IF bad = {} THEN "ok"
        ELSE ViolationAt(election, ballot, CHOOSE i \in bad : \A j \in bad : i <= j)

\* the rows createMany inserts for data.votes; <<request, position>> stands for
\* the generated primary key (a validated ballot names a position once)
BallotRows(r, electionId, voterId, ballot) ==
    { [id |-> <<r, ballot[i].positionId>>, electionId |-> electionId, voterId |-> voterId,
       positionId |-> ballot[i].positionId, candidateId |-> ballot[i].candidateId] :
      i \in 1..Len(ballot) }

\* where: { electionId, voterId } on the committed rows
VotesOfVoter(rows, electionId, voterId) ==
    {v \in rows : v.electionId = electionId /\ v.voterId = voterId}

(***************************************************************************)
(* cast/route.ts POST, one action per awaited step                         *)
(***************************************************************************)
InTransaction(r) == req[r].pc \in {"tx_delete", "tx_delete_rows", "tx_create", "tx_commit"}

InFlight(r) == req[r].pc \in {"find_voter", "find_existing"} \/ InTransaction(r)

\* Lines 22-51: rate limit, body parse, election lookup, phase gate. The
\* limiter's verdict depends on the other traffic of the client's IP and the
\* request body is the client's, so both are inputs; the body's fields are
\* drawn where the handler first reads them (CastFindVoter). Requests are
\* interchangeable, so they are numbered in the order they arrive.
CastBegin(r) ==
    /\ req[r].pc = "idle"
    /\ \A o \in 1..(r - 1) : req[o].pc # "idle"
    /\ \E allowed \in BOOLEAN, wellFormed \in BOOLEAN, shareCode \in ShareCodeInputs :
         IF ~allowed THEN Respond(r, "429", "none")
         ELSE IF ~wellFormed THEN Respond(r, "400_body", "none")
         ELSE IF shareCode \notin DOMAIN elections THEN Respond(r, "404_election", "none")
         ELSE LET election == elections[shareCode]
                  phase == getElectionPhase(election, now)
              IN  IF ~PhaseAllowsCast(phase) THEN Respond(r, "403_phase", phase)
                  ELSE req' = [req EXCEPT ![r].pc = "find_voter",
                                          ![r].election = election,
                                          ![r].phase = phase]
    /\ UNCHANGED <<now, elections, voters, votes, subject, libVars, derived, adminVars>>

\* Lines 53-80: voter lookup scoped to the election, verification gate, and
\* the validation loop over data.votes (no await inside it). What createMany
\* will insert is fixed here: the rows of the validated data.votes.
CastFindVoter(r) ==
    /\ req[r].pc = "find_voter"
    /\ \E voterId \in VoterIdInputs :
         LET election == req[r].election
         IN  IF ~VoterFound(voterId, election.id)
                  THEN Respond(r, "404_voter", req[r].phase)
             ELSE IF ~voters[voterId].emailVerified
                  THEN Respond(r, "403_unverified", req[r].phase)
             ELSE \E ballot \in Ballots :
                    LET verdict == ValidateBallot(election, ballot)
                    IN  IF verdict # "ok" THEN Respond(r, verdict, req[r].phase)
                        ELSE req' = [req EXCEPT
                                 ![r].pc = "find_existing",
                                 ![r].voterId = voterId,
                                 ![r].data = BallotRows(r, election.id, voterId, ballot)]
    /\ UNCHANGED <<now, elections, voters, votes, subject, libVars, derived, adminVars>>

\* Lines 82-93: existingVotes is read outside the transaction; isUpdate and the
\* allowVoteUpdate gate are decided from that read.
CastFindExisting(r) ==
    /\ req[r].pc = "find_existing"
    /\ LET existingVotes == VotesOfVoter(votes, req[r].election.id, req[r].voterId)
           isUpdate == existingVotes # {}
       IN  IF isUpdate /\ ~req[r].election.allowVoteUpdate
                THEN Respond(r, "403_no_update", req[r].phase)
           ELSE req' = [req EXCEPT ![r].pc = IF isUpdate THEN "tx_delete"
                                              ELSE "tx_create",
                                   ![r].isUpdate = isUpdate]
    /\ UNCHANGED <<now, elections, voters, votes, subject, libVars, derived, adminVars>>

\* Lines 96-100, tx.vote.deleteMany starts: the statement fixes the rows it
\* will delete, those committed and matching when it starts.
TxDeleteScan(r) ==
    /\ req[r].pc = "tx_delete"
    /\ req' = [req EXCEPT ![r].pc = "tx_delete_rows",
                          ![r].snap = VotesOfVoter(votes, req[r].election.id, req[r].voterId)]
    /\ UNCHANGED <<now, elections, voters, votes, subject, libVars, derived, adminVars>>

\* tx.vote.deleteMany finishes: it waits while another open transaction holds
\* one of its rows deleted, and then deletes those of its rows that still exist
\* (a row whose deleter committed is gone and is skipped).
TxDeleteRows(r) ==
    /\ req[r].pc = "tx_delete_rows"
    /\ \A o \in Requests \ {r} : req[o].txDel \cap req[r].snap = {}
    /\ req' = [req EXCEPT ![r].pc = "tx_create",
                          ![r].snap = {},
                          ![r].txDel = req[r].snap \cap votes]
    /\ UNCHANGED <<now, elections, voters, votes, subject, libVars, derived, adminVars>>

\* Lines 102-109, tx.vote.createMany: the rows are written inside the
\* transaction, invisible to others until commit.
TxCreate(r) ==
    /\ req[r].pc = "tx_create"
    /\ req' = [req EXCEPT ![r].pc = "tx_commit"]
    /\ UNCHANGED <<now, elections, voters, votes, subject, libVars, derived, adminVars>>

\* the table once a transaction's deletes and inserts are committed together
\* (rows are keyed by id alone: the handler relies on no key over voter and
\* position, it catches no unique violation and the sources declare none)
VotesAfterCommit(r) == (votes \ req[r].txDel) \cup req[r].data

\* Lines 110-124: the callback returns, the transaction commits, the handler
\* audits (fire-and-forget) and answers 200.
TxCommit(r) ==
    /\ req[r].pc = "tx_commit"
    /\ votes' = VotesAfterCommit(r)
    /\ req' = [req EXCEPT ![r].pc = "done", ![r].txDel = {}, ![r].resp = "200"]
    /\ UNCHANGED <<now, elections, voters, subject, libVars, derived, adminVars>>

\* lines 95-110 with the delete issued on prisma instead of tx: it is not
\* undone when the transaction fails
VotesAfterFail_deleteOutsideTx(r) == votes \ req[r].txDel

\* the table once a failed transaction is rolled back
VotesAfterFail(r) == votes

\* Lines 125-131: any awaited database call may throw; a throw inside the
\* transaction callback rolls the transaction back (undone: the deletes it
\* takes back); the handler answers 500.
CastFail(r) ==
    /\ InFlight(r)
    /\ votes' = VotesAfterFail(r)
    /\ req' = [req EXCEPT ![r] = [Idle EXCEPT !.pc = "done", !.resp = "500",
                                              !.phase = req[r].phase,
                                              !.undone = req[r].txDel]]
    /\ UNCHANGED <<now, elections, voters, subject, libVars, derived, adminVars>>

\* The Vote table the runs start from: empty, or, in an election that is open
\* for voting, holding the ballot {p1: a, p2: c} that v1 cast earlier.
EarlierBallot ==
    <<[positionId |-> "p1", candidateId |-> "a"], [positionId |-> "p2", candidateId |-> "c"]>>

InitVotes(table) ==
    {{}} \cup (IF getElectionPhase(table["e1"], 0) = "voting"
               THEN {BallotRows(0, "e1", "v1", EarlierBallot)} ELSE {})

\* the clock stops one instant after the end of voting: nothing changes later
LastInstant == FullDates.votingEnd + 1

\* wall-clock time passes
Tick ==
    /\ now < LastInstant
    /\ now' = now + 1
    /\ UNCHANGED <<elections, voters, votes, req, subject, libVars, derived, adminVars>>

Init ==
    /\ now = 0
    /\ elections \in InitElections
    /\ voters = InitVoters
    /\ votes \in InitVotes(elections)
    /\ req = [r \in Requests |-> Idle]
    /\ subject = NoElection
    /\ derived = "none"
    /\ AdminIdle

Next ==
    \/ \E r \in Requests : CastBegin(r)
    \/ \E r \in Requests : CastFindVoter(r)
    \/ \E r \in Requests : CastFindExisting(r)
    \/ \E r \in Requests : TxDeleteScan(r)
    \/ \E r \in Requests : TxDeleteRows(r)
    \/ \E r \in Requests : TxCreate(r)
    \/ \E r \in Requests : TxCommit(r)
    \/ \E r \in Requests : CastFail(r)
    \/ Tick

Spec == Init /\ [][Next]_vars


(***************************************************************************)
(* getElectionPhase on its own: every status, mode and schedule with       *)
(* instants up to MaxInstant, at every instant up to one past MaxInstant.  *)
(***************************************************************************)
Instants == {Null} \cup 0..MaxInstant

PhaseSubjects ==
    { Election("e1", st, auto,
               [registrationStart |-> rs, registrationEnd |-> re,
                votingStart |-> vs, votingEnd |-> ve], FALSE) :
      st \in Statuses, auto \in BOOLEAN,
      rs \in Instants, re \in Instants, vs \in Instants, ve \in Instants }

InitPhase ==
    /\ now \in 0..(MaxInstant + 1)
    /\ subject \in PhaseSubjects
    /\ derived = "none"
    /\ elections = [e \in ShareCodes |-> Election(e, "draft", FALSE, NoDates, FALSE)]
    /\ voters = InitVoters
    /\ votes = {}
    /\ req = [r \in Requests |-> Idle]
    /\ AdminIdle

EvaluatePhase ==
    /\ derived = "none"
    /\ derived' = getElectionPhase(subject, now)
    /\ UNCHANGED <<now, elections, voters, votes, req, subject, libVars, adminVars>>

NextPhase == EvaluatePhase

SpecPhase == InitPhase /\ [][NextPhase]_vars


(***************************************************************************)
(* lib/time-validation.ts: validateElectionTimes                           *)
(***************************************************************************)
\* the checks in the order the function makes them; `fields` is any record
\* with the four instants, t is the function's own new Date()
TimeChecks(fields, allowPast, t) ==
    LET regStart == fields.registrationStart
        regEnd == fields.registrationEnd
        voteStart == fields.votingStart
        voteEnd == fields.votingEnd
    IN << [failed |-> ~allowPast /\ IsSet(regStart) /\ regStart < t,
           error |-> "Registration start must be in the future"],
          [failed |-> ~allowPast /\ IsSet(regEnd) /\ regEnd < t,
           error |-> "Registration end must be in the future"],
          [failed |-> ~allowPast /\ IsSet(voteStart) /\ voteStart < t,
           error |-> "Voting start must be in the future"],
          [failed |-> ~allowPast /\ IsSet(voteEnd) /\ voteEnd < t,
           error |-> "Voting end must be in the future"],
          [failed |-> IsSet(regStart) /\ IsSet(regEnd) /\ regEnd <= regStart,
           error |-> "Registration end must be after registration start"],
          [failed |-> IsSet(voteStart) /\ IsSet(voteEnd) /\ voteEnd <= voteStart,
           error |-> "Voting end must be after voting start"],
          [failed |-> IsSet(regEnd) /\ IsSet(voteStart) /\ voteStart < regEnd,
           error |-> "Voting start must be on or after registration end"],
          [failed |-> /\ IsSet(regStart) /\ IsSet(voteStart) /\ ~IsSet(regEnd)
                      /\ voteStart <= regStart,
           error |-> "Voting start must be after registration start"],
          [failed |-> IsSet(regStart) /\ IsSet(voteEnd) /\ voteEnd <= regStart,
           error |-> "Voting end must be after registration start"] >>

validateElectionTimes(fields, allowPast, t) ==
    LET failed == SelectSeq(TimeChecks(fields, allowPast, t), LAMBDA c : c.failed)
        errors == [i \in 1..Len(failed) |-> failed[i].error]
    IN [valid |-> Len(errors) = 0, errors |-> errors]

(***************************************************************************)
(* getElectionPhase of one unchanged record while the clock advances: the  *)
(* schedules are those validateElectionTimes lets through (ordering rules  *)
(* only, as PATCH calls it).                                               *)
(***************************************************************************)
OrderedSubjects ==
    {e \in PhaseSubjects : validateElectionTimes(e, TRUE, 0).valid}

InitPhaseClock ==
    /\ now = 0
    /\ subject \in OrderedSubjects
    /\ derived = "none"
    /\ elections = [e \in ShareCodes |-> Election(e, "draft", FALSE, NoDates, FALSE)]
    /\ voters = InitVoters
    /\ votes = {}
    /\ req = [r \in Requests |-> Idle]
    /\ AdminIdle

ObservePhase ==
    /\ derived' = getElectionPhase(subject, now)
    /\ derived' # derived
    /\ UNCHANGED <<now, elections, voters, votes, req, subject, libVars, adminVars>>

NextPhaseClock == ObservePhase \/ Tick

SpecPhaseClock == InitPhaseClock /\ [][NextPhaseClock]_vars

(***************************************************************************)
(* app/api/elections/[id]/route.ts: PATCH                                  *)
(* Every await of a database call ends a step. The handler reads the       *)
(* election and its voter and vote counts once (line 51) and decides       *)
(* everything on that copy; its writes go to the row as it is by then.     *)
(***************************************************************************)
Has(body, key) == key \in body.keys

\* the bodies an organizer sends: one field, or one position/candidate
\* operation, and a schedule change dressed up with status closed (the region
\* operations of lines 238-288 are not among them)
FieldBodies ==
    {[NoBody EXCEPT !.keys = {"status"}, !.status = st] : st \in Statuses}
    \cup {[NoBody EXCEPT !.keys = {"autoTransition"}, !.autoTransition = b] : b \in BOOLEAN}
    \cup {[NoBody EXCEPT !.keys = {"votingEnd"}, !.votingEnd = ve] :
            ve \in {Null, FullDates.votingStart, FullDates.votingEnd + 1}}
    \cup {[NoBody EXCEPT !.keys = {"status", "votingEnd"},
                         !.status = "closed", !.votingEnd = Null]}
    \cup {[NoBody EXCEPT !.keys = {"securityLevel"}, !.securityLevel = "strict"]}
    \cup {[NoBody EXCEPT !.keys = {"requireLocation"}, !.requireLocation = TRUE]}
    \cup {[NoBody EXCEPT !.keys = {"allowVoteUpdate"}, !.allowVoteUpdate = TRUE]}
    \cup {[NoBody EXCEPT !.keys = {"title"}, !.title = "t1"]}

PositionOps == {"addPosition", "updatePosition", "removePosition"}
CandidateOps == {"addCandidate", "updateCandidate", "removeCandidate"}

\* each operation on an id of the election e1, and on one it does not have
OpBodies ==
    {[NoBody EXCEPT !.keys = {"addPosition"}, !.label = "t1"]}
    \cup {[NoBody EXCEPT !.keys = {op}, !.target = p, !.label = "t1"] :
            op \in {"updatePosition", "removePosition", "addCandidate"},
            p \in {"p2", "q1"}}
    \cup {[NoBody EXCEPT !.keys = {op}, !.target = c, !.label = "t1"] :
            op \in {"updateCandidate", "removeCandidate"}, c \in {"c", "x"}}

PatchBodies == FieldBodies \cup OpBodies

\* ids the database gives to rows created by addPosition and addCandidate
NewPositionIds == {"p3"}
NewCandidateIds == {"d"}

\* election._count.voters > 0 and election._count.votes > 0
HasVoters(id) == \E v \in DOMAIN voters : voters[v].electionId = id
HasVotes(id) == \E x \in votes : x.electionId = id

\* body.status as line 65 compares it
BodyStatus(body) == IF Has(body, "status") THEN body.status ELSE "undefined"

IsTimeChange(body) ==
    \/ Has(body, "registrationEnd") \/ Has(body, "registrationStart")
    \/ Has(body, "votingStart") \/ Has(body, "votingEnd")

\* line 103 looking at the stored status only
TimesLocked_statusOnly(election, phase) == election.status = "closed"

TimesLocked(election, phase) == phase = "closed" \/ election.status = "closed"

\* lines 111-116
MergedTimes(election, body) ==
    [registrationStart |-> IF Has(body, "registrationStart")
                           THEN body.registrationStart ELSE election.registrationStart,
     registrationEnd |-> IF Has(body, "registrationEnd")
                         THEN body.registrationEnd ELSE election.registrationEnd,
     votingStart |-> IF Has(body, "votingStart")
                     THEN body.votingStart ELSE election.votingStart,
     votingEnd |-> IF Has(body, "votingEnd")
                   THEN body.votingEnd ELSE election.votingEnd]

\* lines 65-121: the rejection the field gates give, or "ok"
FieldGate(election, phase, hasVoters, hasVotes, body, t) ==
    IF /\ phase = "closed" /\ election.status = "closed"
       /\ BodyStatus(body) # "closed"
       /\ body.keys \ {"title", "description", "resultsVisibility"} # {}
       THEN "400_closed"
    ELSE IF hasVoters /\ Has(body, "securityLevel") THEN "400_security_level"
    ELSE IF hasVoters /\ Has(body, "requireLocation") THEN "400_require_location"
    ELSE IF hasVotes /\ Has(body, "allowVoteUpdate") THEN "400_vote_update"
    ELSE IF IsTimeChange(body) /\ TimesLocked(election, phase) THEN "400_times_closed"
    ELSE IF /\ IsTimeChange(body)
            /\ ~validateElectionTimes(MergedTimes(election, body), TRUE, t).valid
       THEN "400_times"
    ELSE "ok"

\* lines 124-235: the operation the body asks for is the first of these keys
OpOf(body) ==
    IF Has(body, "addPosition") THEN "addPosition"
    ELSE IF Has(body, "updatePosition") THEN "updatePosition"
    ELSE IF Has(body, "removePosition") THEN "removePosition"
    ELSE IF Has(body, "addCandidate") THEN "addCandidate"
    ELSE IF Has(body, "updateCandidate") THEN "updateCandidate"
    ELSE IF Has(body, "removeCandidate") THEN "removeCandidate"
    ELSE "none"

\* lines 125, 147, 163, 173, 197, 221: the gate of each operation
OpGate(op, hasVoters, hasVotes) ==
    IF op \in {"addPosition", "updatePosition", "addCandidate", "updateCandidate"}
       /\ hasVotes THEN "400_has_votes"
    ELSE IF op \in {"removePosition", "removeCandidate"} /\ hasVoters
       THEN "400_has_voters"
    ELSE "ok"

\* where the handler is after the gates: at the first database call of the branch
FirstCall(op) ==
    CASE op = "addPosition" -> "position_create"
      [] op = "updatePosition" -> "position_update"
      [] op = "removePosition" -> "position_delete"
      [] op = "addCandidate" -> "find_position"
      [] op \in {"updateCandidate", "removeCandidate"} -> "find_candidate"
      [] OTHER -> "update"

PatchRespond(o, resp) ==
    patch' = [patch EXCEPT ![o].pc = "done", ![o].resp = resp]

\* invalidate(`election:${election.shareCode}`)
Invalidate(shareCode) == cache' = [cache EXCEPT ![shareCode] = NoEntry]

CandidatesOf(election) == UNION {election.positions[p] : p \in DOMAIN election.positions}

Restrict(f, S) == [x \in S |-> f[x]]

\* lines 44-58: session, the election of this organizer with its counts
PatchFind(o) ==
    /\ patch[o].pc = "idle"
    /\ \E session \in Sessions, id \in ShareCodeInputs :
         IF session = "none" THEN PatchRespond(o, "401")
         ELSE IF \/ id \notin ShareCodes \/ elections[id].id = "none"
                 \/ elections[id].organizerId # session
              THEN PatchRespond(o, "404")
         ELSE patch' = [patch EXCEPT ![o] =
                  [PatchIdle EXCEPT !.pc = "check", !.id = id,
                                    !.election = elections[id],
                                    !.hasVoters = HasVoters(id),
                                    !.hasVotes = HasVotes(id)]]
    /\ UNCHANGED <<now, elections, voters, votes, req, subject, libVars, derived, reader, reg, cache>>

\* lines 60-127 (and 147, 163, 173, 197, 221): body, phase, the gates
PatchCheck(o) ==
    /\ patch[o].pc = "check"
    /\ \E body \in PatchBodies :
         LET p == patch[o]
             phase == getElectionPhase(p.election, now)
             field == FieldGate(p.election, phase, p.hasVoters, p.hasVotes, body, now)
             gate == OpGate(OpOf(body), p.hasVoters, p.hasVotes)
         IN patch' = [patch EXCEPT ![o].body = body, ![o].phase = phase,
                ![o].pc = IF field = "ok" /\ gate = "ok"
                          THEN FirstCall(OpOf(body)) ELSE "done",
                ![o].resp = IF field # "ok" THEN field
                            ELSE IF gate # "ok" THEN gate ELSE "none"]
    /\ UNCHANGED <<now, elections, voters, votes, req, subject, libVars, derived, reader, reg, cache>>

\* lines 128-143: the new position row
PatchPositionCreate(o) ==
    /\ patch[o].pc = "position_create"
    /\ \E new \in NewPositionIds \ DOMAIN elections[patch[o].id].positions :
         elections' = [elections EXCEPT
             ![patch[o].id].positions = @ @@ (new :> {}),
             ![patch[o].id].labels = @ @@ (new :> patch[o].body.label)]
    /\ Invalidate(patch[o].election.id)
    /\ PatchRespond(o, "200")
    /\ UNCHANGED <<now, voters, votes, req, subject, libVars, derived, reader, reg>>

\* lines 150-159: updateMany on (id, electionId): no row, no change
PatchPositionUpdate(o) ==
    /\ patch[o].pc = "position_update"
    /\ LET target == patch[o].body.target
       IN elections' =
            IF target \in DOMAIN elections[patch[o].id].positions
            THEN [elections EXCEPT ![patch[o].id].labels[target] = patch[o].body.label]
            ELSE elections
    /\ Invalidate(patch[o].election.id)
    /\ PatchRespond(o, "200")
    /\ UNCHANGED <<now, voters, votes, req, subject, libVars, derived, reader, reg>>

\* lines 166-169: deleteMany on (id, electionId); the position's candidates
\* go with it
PatchPositionDelete(o) ==
    /\ patch[o].pc = "position_delete"
    /\ LET e == elections[patch[o].id]
           target == patch[o].body.target
           keep == DOMAIN e.positions \ {target}
           gone == IF target \in DOMAIN e.positions
                   THEN {target} \cup e.positions[target] ELSE {}
       IN elections' = [elections EXCEPT
             ![patch[o].id].positions = Restrict(@, keep),
             ![patch[o].id].labels = Restrict(@, DOMAIN @ \ gone)]
    /\ Invalidate(patch[o].election.id)
    /\ PatchRespond(o, "200")
    /\ UNCHANGED <<now, voters, votes, req, subject, libVars, derived, reader, reg>>

\* lines 176-177: the position the candidate is added to
PatchFindPosition(o) ==
    /\ patch[o].pc = "find_position"
    /\ IF patch[o].body.target \in DOMAIN elections[patch[o].id].positions
       THEN patch' = [patch EXCEPT ![o].pc = "candidate_create"]
       ELSE PatchRespond(o, "404")
    /\ UNCHANGED <<now, elections, voters, votes, req, subject, libVars, derived, reader, reg, cache>>

\* lines 178-193: the new candidate row (a position deleted since line 176
\* fails the insert, and the handler, which catches nothing, answers 500)
PatchCandidateCreate(o) ==
    /\ patch[o].pc = "candidate_create"
    /\ LET e == elections[patch[o].id]
           target == patch[o].body.target
       IN IF target \in DOMAIN e.positions
          THEN /\ \E new \in NewCandidateIds \ CandidatesOf(e) :
                    elections' = [elections EXCEPT
                        ![patch[o].id].positions[target] = @ \cup {new},
                        ![patch[o].id].labels = @ @@ (new :> patch[o].body.label)]
               /\ Invalidate(patch[o].election.id)
               /\ PatchRespond(o, "200")
          ELSE /\ PatchRespond(o, "500")
               /\ UNCHANGED <<elections, cache>>
    /\ UNCHANGED <<now, voters, votes, req, subject, libVars, derived, reader, reg>>

\* lines 200-206 and 224-230: the candidate, which must be of this election
PatchFindCandidate(o) ==
    /\ patch[o].pc = "find_candidate"
    /\ IF patch[o].body.target \in CandidatesOf(elections[patch[o].id])
       THEN patch' = [patch EXCEPT ![o].pc =
                IF OpOf(patch[o].body) = "updateCandidate"
                THEN "candidate_update" ELSE "candidate_delete"]
       ELSE PatchRespond(o, "404")
    /\ UNCHANGED <<now, elections, voters, votes, req, subject, libVars, derived, reader, reg, cache>>

\* lines 207-217 (update of a row deleted since line 200 throws: 500)
PatchCandidateUpdate(o) ==
    /\ patch[o].pc = "candidate_update"
    /\ LET target == patch[o].body.target
       IN IF target \in CandidatesOf(elections[patch[o].id])
          THEN /\ elections' = [elections EXCEPT
                      ![patch[o].id].labels[target] = patch[o].body.label]
               /\ Invalidate(patch[o].election.id)
               /\ PatchRespond(o, "200")
          ELSE /\ PatchRespond(o, "500")
               /\ UNCHANGED <<elections, cache>>
    /\ UNCHANGED <<now, voters, votes, req, subject, libVars, derived, reader, reg>>

\* lines 231-234 (delete of a row deleted since line 224 throws: 500)
PatchCandidateDelete(o) ==
    /\ patch[o].pc = "candidate_delete"
    /\ LET e == elections[patch[o].id]
           target == patch[o].body.target
       IN IF target \in CandidatesOf(e)
          THEN /\ elections' = [elections EXCEPT
                      ![patch[o].id].positions =
                          [p \in DOMAIN @ |-> @[p] \ {target}],
                      ![patch[o].id].labels = Restrict(@, DOMAIN @ \ {target})]
               /\ Invalidate(patch[o].election.id)
               /\ PatchRespond(o, "200")
          ELSE /\ PatchRespond(o, "500")
               /\ UNCHANGED <<elections, cache>>
    /\ UNCHANGED <<now, voters, votes, req, subject, libVars, derived, reader, reg>>

\* lines 293-315: the row with the fields the body carries written over
ApplyBody(row, body) ==
    [row EXCEPT
        !.title = IF Has(body, "title") THEN body.title ELSE @,
        !.status = IF Has(body, "status") THEN body.status ELSE @,
        !.registrationStart = IF Has(body, "registrationStart")
                              THEN body.registrationStart ELSE @,
        !.registrationEnd = IF Has(body, "registrationEnd")
                            THEN body.registrationEnd ELSE @,
        !.votingStart = IF Has(body, "votingStart") THEN body.votingStart ELSE @,
        !.votingEnd = IF Has(body, "votingEnd") THEN body.votingEnd ELSE @,
        !.securityLevel = IF Has(body, "securityLevel") THEN body.securityLevel ELSE @,
        !.allowVoteUpdate = IF Has(body, "allowVoteUpdate")
                            THEN body.allowVoteUpdate ELSE @,
        !.requireLocation = IF Has(body, "requireLocation")
                            THEN body.requireLocation ELSE @,
        !.autoTransition = IF Has(body, "autoTransition")
                           THEN body.autoTransition ELSE @]

\* lines 291-334: prisma.election.update, invalidate, audit, the response
PatchUpdate(o) ==
    /\ patch[o].pc = "update"
    /\ elections' = [elections EXCEPT ![patch[o].id] = ApplyBody(@, patch[o].body)]
    /\ Invalidate(patch[o].election.id)
    /\ PatchRespond(o, "200")
    /\ UNCHANGED <<now, voters, votes, req, subject, libVars, derived, reader, reg>>

PatchStep(o) ==
    \/ PatchFind(o) \/ PatchCheck(o)
    \/ PatchPositionCreate(o) \/ PatchPositionUpdate(o) \/ PatchPositionDelete(o)
    \/ PatchFindPosition(o) \/ PatchCandidateCreate(o)
    \/ PatchFindCandidate(o) \/ PatchCandidateUpdate(o) \/ PatchCandidateDelete(o)
    \/ PatchUpdate(o)

(***************************************************************************)
(* app/api/vote/[shareCode]/route.ts: GET, the public status read, with    *)
(* lib/cache.ts: cached                                                    *)
(***************************************************************************)
\* ttlMs of line 14 (3000 ms), in instants of the clock: an entry stored at
\* one instant is served during that instant and no longer
CacheTtl == 1

\* lines 29-43 once the election is there (NoElection stands for null): the
\* 404, the phase, and whether a status is going to be written
ReaderAfterLoad(r, data, t) ==
    LET phase == getElectionPhase(data, t)
    IN IF data.id = "none"
       THEN [r EXCEPT !.pc = "done", !.resp = "404"]
       ELSE IF /\ data.autoTransition
               /\ \/ phase = "voting" /\ data.status = "registration"
                  \/ phase = "closed" /\ data.status # "closed"
       THEN [r EXCEPT !.pc = "sync", !.election = data, !.phase = phase]
       ELSE [r EXCEPT !.pc = "done", !.election = data, !.phase = phase,
                      !.resp = "200"]

\* an organizer request on the election of this share code was answered 200
Mutated(key) ==
    \E o \in PatchIds :
        patch[o].pc = "done" /\ patch[o].resp = "200" /\ patch[o].election.id = key

\* the same for the requests that call invalidate before they answer
Invalidated(key) ==
    \E o \in PatchIds :
        /\ patch[o].pc = "done" /\ patch[o].resp = "200"
        /\ patch[o].election.id = key /\ patch[o].method = "PATCH"

\* cache line 20 at the instant t, served at the expiry instant as well
Live_atExpiry(entry, t) == entry.present /\ entry.expiresAt >= t

\* cache line 20 at the instant t
Live(entry, t) == entry.present /\ entry.expiresAt > t

\* route line 14, cache lines 17-24: a live entry is returned as it is, and
\* lines 29-43 follow; otherwise the fetcher is invoked
ReadCached(g) ==
    /\ reader[g].pc = "idle"
    /\ \E key \in ShareCodeInputs :
         LET begun == [ReaderIdle EXCEPT !.key = key, !.started = now,
                                         !.afterInvalidate = Invalidated(key)]
         IN IF Live(cache[key], now)
            THEN reader' = [reader EXCEPT ![g] =
                     ReaderAfterLoad([begun EXCEPT !.from = cache[key].by],
                                     cache[key].data, now)]
            ELSE reader' = [reader EXCEPT ![g] = [begun EXCEPT !.pc = "fetch"]]
    /\ UNCHANGED <<now, elections, voters, votes, req, subject, libVars, derived, patch, reg, cache>>

\* route lines 15-26: the query of the fetcher runs in the database
ReadLoad(g) ==
    /\ reader[g].pc = "fetch"
    /\ LET key == reader[g].key
           data == IF key \in ShareCodes THEN elections[key] ELSE NoElection
       IN reader' = [reader EXCEPT ![g].pc = "store", ![g].election = data,
                                   ![g].loadedBefore = ~Invalidated(key)]
    /\ UNCHANGED <<now, elections, voters, votes, req, subject, libVars, derived, patch, reg, cache>>

\* cache lines 24-26 once the fetcher has answered, then route lines 29-43
ReadStore(g) ==
    /\ reader[g].pc = "store"
    /\ LET key == reader[g].key
           data == reader[g].election
           stored == [reader[g] EXCEPT !.storedAt = now,
                                       !.storedBefore = ~Mutated(key)]
       IN /\ cache' = [cache EXCEPT ![key] =
                 [present |-> TRUE, data |-> data,
                  expiresAt |-> reader[g].started + CacheTtl, by |-> g]]
          /\ reader' = [reader EXCEPT ![g] = ReaderAfterLoad(stored, data, now)]
    /\ UNCHANGED <<now, elections, voters, votes, req, subject, libVars, derived, patch, reg>>

\* lines 39 and 41: the status the phase stands for is written, and an
\* update of a row that is gone throws; lines 45-80
ReadSync(g) ==
    /\ reader[g].pc = "sync"
    /\ IF elections[reader[g].election.id].id = "none"
       THEN /\ reader' = [reader EXCEPT ![g].pc = "done", ![g].resp = "500"]
            /\ UNCHANGED elections
       ELSE /\ elections' = [elections EXCEPT
                                ![reader[g].election.id].status = reader[g].phase]
            /\ reader' = [reader EXCEPT ![g].pc = "done", ![g].resp = "200"]
    /\ UNCHANGED <<now, voters, votes, req, subject, libVars, derived, patch, reg, cache>>

ReadStep(g) == ReadCached(g) \/ ReadLoad(g) \/ ReadStore(g) \/ ReadSync(g)

(***************************************************************************)
(* PATCH requests of the organizers, status reads and the clock            *)
(***************************************************************************)
\* e1 in any status and mode, scheduled; e2 closed by its organizer
PatchElections ==
    { [e \in ShareCodes |->
         IF e = "e1" THEN Election("e1", st, auto, FullDates, FALSE)
         ELSE Election("e2", "closed", FALSE, NoDates, TRUE)] :
      st \in Statuses, auto \in BOOLEAN }

\* e1 without voters, with voters, and with votes as well
PatchTables ==
    { [voters |-> Restrict(InitVoters, {"v3"}), votes |-> {}],
      [voters |-> InitVoters, votes |-> {}],
      [voters |-> InitVoters, votes |-> BallotRows(0, "e1", "v1", EarlierBallot)] }

InitPatch ==
    /\ now = 0
    /\ elections \in PatchElections
    /\ \E tables \in PatchTables : voters = tables.voters /\ votes = tables.votes
    /\ req = [r \in Requests |-> Idle]
    /\ subject = NoElection
    /\ derived = "none"
    /\ AdminIdle

NextPatch ==
    \/ \E o \in PatchIds : PatchStep(o)
    \/ ReadStep("g1")
    \/ Tick

SpecPatch == InitPatch /\ [][NextPatch]_vars

(***************************************************************************)
(* app/api/elections/[id]/route.ts: DELETE                                 *)
(***************************************************************************)
DeleteRespond(o, resp) ==
    patch' = [patch EXCEPT ![o] = [PatchIdle EXCEPT !.method = "DELETE", !.pc = "done",
                                                    !.resp = resp]]

\* lines 341-354: the session and the election of this organizer
DeleteFind(o) ==
    /\ patch[o].pc = "idle"
    /\ \E session \in Sessions, id \in ShareCodeInputs :
         IF session = "none" THEN DeleteRespond(o, "401")
         ELSE IF \/ id \notin ShareCodes \/ elections[id].id = "none"
                 \/ elections[id].organizerId # session
              THEN DeleteRespond(o, "404")
         ELSE patch' = [patch EXCEPT ![o] =
                  [PatchIdle EXCEPT !.method = "DELETE", !.pc = "delete", !.id = id,
                                    !.election = elections[id]]]
    /\ UNCHANGED <<now, elections, voters, votes, req, subject, libVars, derived, reader, reg, cache>>

\* lines 356-366: prisma.election.delete, audit, the response; the cache is
\* not touched. The elections deleted here have no voter and no vote.
DeleteRow(o) ==
    /\ patch[o].pc = "delete"
    /\ elections' = [elections EXCEPT ![patch[o].id] = NoElection]
    /\ patch' = [patch EXCEPT ![o].pc = "done", ![o].resp = "200"]
    /\ UNCHANGED <<now, voters, votes, req, subject, libVars, derived, reader, reg, cache>>

DeleteStep(o) == DeleteFind(o) \/ DeleteRow(o)

(***************************************************************************)
(* One request of an organizer, PATCH or DELETE, two status reads and the  *)
(* clock; of the two reads, g1 is the one that begins first                *)
(***************************************************************************)
\* e1 open for registration on its schedule and without voters
InitCache ==
    /\ now = 0
    /\ elections = [e \in ShareCodes |->
                      IF e = "e1" THEN Election("e1", "registration", TRUE, FullDates, FALSE)
                      ELSE Election("e2", "closed", FALSE, NoDates, TRUE)]
    /\ voters = Restrict(InitVoters, {"v3"})
    /\ votes = {}
    /\ req = [r \in Requests |-> Idle]
    /\ subject = NoElection
    /\ derived = "none"
    /\ AdminIdle

ReadSteps ==
    \/ ReadStep("g1")
    \/ reader["g1"].pc # "idle" /\ ReadStep("g2")

\* the bodies of these runs: a later votingEnd, an earlier one, a new title
CacheBodies ==
    {body \in FieldBodies : body.keys \in {{"votingEnd"}, {"title"}}}

NextCache ==
    \/ \E o \in PatchIds :
          \/ PatchFind(o)
          \/ PatchCheck(o) /\ patch'[o].body \in CacheBodies
          \/ PatchUpdate(o)
    \/ ReadSteps
    \/ Tick

SpecCache == InitCache /\ [][NextCache]_vars

NextDelete ==
    \/ \E o \in PatchIds : DeleteStep(o)
    \/ ReadSteps
    \/ Tick

SpecDelete == InitCache /\ [][NextDelete]_vars

(***************************************************************************)
(* app/api/elections/route.ts: POST, the creation of an election, followed *)
(* by a PATCH of its fields                                                *)
(***************************************************************************)
\* the four instants of a body: each a date, or not given
Schedules ==
    [registrationStart : Instants \cup {Null}, registrationEnd : Instants \cup {Null},
     votingStart : Instants \cup {Null}, votingEnd : Instants \cup {Null}]

\* lines 69-125 for an organizer with a session and a body that the schema
\* accepts: the row gets the instants of the body as they are. The share code
\* e1 is the one the new row is given; status and autoTransition are not in
\* `data` and get the defaults of the schema: draft, and either mode.
CreateElection ==
    /\ elections["e1"].id = "none"
    /\ \E dates \in Schedules, auto \in BOOLEAN :
         elections' = [elections EXCEPT !["e1"] =
             [Election("e1", "draft", auto, dates, FALSE)
                 EXCEPT !.securityLevel = "standard"]]
    /\ UNCHANGED <<now, voters, votes, req, subject, libVars, derived, adminVars>>

InitCreate ==
    /\ now = 0
    /\ elections = [e \in ShareCodes |->
                      IF e = "e1" THEN NoElection
                      ELSE Election("e2", "closed", FALSE, NoDates, TRUE)]
    /\ voters = Restrict(InitVoters, {"v3"})
    /\ votes = {}
    /\ req = [r \in Requests |-> Idle]
    /\ subject = NoElection
    /\ derived = "none"
    /\ AdminIdle

NextCreate ==
    \/ CreateElection
    \/ \E o \in PatchIds :
          \/ PatchFind(o)
          \/ PatchCheck(o) /\ patch'[o].body \in FieldBodies
          \/ PatchUpdate(o)
    \/ Tick

SpecCreate == InitCreate /\ [][NextCreate]_vars

(***************************************************************************)
(* The voter registration handler (POST, unnamed/part_007)                 *)
(* The elections here have no custom fields, so the required-field loop    *)
(* (lines 106-116) lets every registration through.                        *)
(***************************************************************************)
\* data.email: the address of a registered voter of e1, and a new one
Emails == {"v1", "n1"}

\* data.deviceFingerprint, "none" when the body carries none
Fingerprints == {"f1", "none"}

\* the id the database gives the next Voter row
NewVoterIds == {"w1", "w2"}

NewVoterId == IF "w1" \in DOMAIN voters THEN "w2" ELSE "w1"

\* the coordinates a client sends: 480 m, 510 m and 530 m east of the origin,
\* or none. An election that does not look at the coordinate (line 82) is
\* sent none.
Coordinates ==
    {NoCoordinate} \cup {[given |-> TRUE, point |-> <<x, 0>>] : x \in {480, 510, 530}}

CoordinatesFor(election) ==
    IF election.requireLocation /\ Len(election.regions) > 0
    THEN Coordinates ELSE {NoCoordinate}

RegRespond(n, resp) == reg' = [reg EXCEPT ![n].pc = "done", ![n].resp = resp]

VotersWith(electionId, field, value) ==
    {v \in DOMAIN voters : voters[v].electionId = electionId /\ voters[v][field] = value}

\* lines 93-99: the id of the first region, in the order of election.regions,
\* that isPointInRegion accepts; "none" when there is none
FirstMatch(regions, point) ==
    LET hits == {i \in 1..Len(regions) :
                    isPointInRegion(point, regions[i].geometry, regions[i].bufferMeters)}
    IN IF hits = {} THEN "none"
       ELSE regions[CHOOSE i \in hits : \A j \in hits : i <= j].id

\* data.customFieldValues[field.id]: nothing, null, or a string, which is a
\* sequence of the characters " " and "a"
Absent == [type |-> "undefined", chars |-> <<>>]

Text(chars) == [type |-> "string", chars |-> chars]

MaxChars == 2

FieldValues ==
    {Absent, [type |-> "null", chars |-> <<>>]}
    \cup {Text(chars) : chars \in UNION {[1..k -> {" ", "a"}] : k \in 0..MaxChars}}

\* String.prototype.trim on these strings
RECURSIVE trim(_)
trim(chars) ==
    IF chars = <<>> THEN <<>>
    ELSE IF Head(chars) = " " THEN trim(Tail(chars))
    ELSE IF chars[Len(chars)] = " " THEN trim(SubSeq(chars, 1, Len(chars) - 1))
    ELSE chars

\* line 109 without the trim
IsBlank_emptyOnly(value) ==
    value.type \in {"undefined", "null"} \/ value.chars = <<>>

\* line 109: !value || (typeof value === "string" && value.trim() === "")
IsBlank(value) ==
    \/ value.type \in {"undefined", "null"}
    \/ value.type = "string" /\ value.chars = <<>>
    \/ value.type = "string" /\ trim(value.chars) = <<>>

\* election.customFields: none, one required field, an optional field
\* before a required one
FieldTables ==
    {<<>>, <<[id |-> "f1", isRequired |-> TRUE]>>,
     <<[id |-> "f1", isRequired |-> FALSE], [id |-> "f2", isRequired |-> TRUE]>>}

\* the bodies a client sends to an election: a value for each field of it
ValuesFor(election) ==
    [{election.customFields[i].id : i \in 1..Len(election.customFields)} -> FieldValues]

\* lines 106-116: the first required field, in the order of
\* election.customFields, whose value is blank; 0 when there is none
FirstBlank(customFields, values) ==
    LET blank == {i \in 1..Len(customFields) :
                     customFields[i].isRequired /\ IsBlank(values[customFields[i].id])}
    IN IF blank = {} THEN 0 ELSE CHOOSE i \in blank : \A j \in blank : i <= j

\* lines 106-116 on the request r that passed the location block
CustomFieldGate(r) ==
    LET i == FirstBlank(r.election.customFields, r.customFieldValues)
    IN IF i = 0 THEN r
       ELSE [r EXCEPT !.pc = "done", !.resp = "400_field",
                      !.field = r.election.customFields[i].id]

\* lines 80-104 on the request r that has its body: the location block
LocationGate(r) ==
    IF r.election.requireLocation /\ Len(r.election.regions) > 0
    THEN IF ~r.at.given
         THEN [r EXCEPT !.pc = "done", !.resp = "400_location"]
         ELSE IF FirstMatch(r.election.regions, r.at.point) = "none"
         THEN [r EXCEPT !.pc = "done", !.resp = "403_location"]
         ELSE [r EXCEPT !.pc = "create",
                        !.regionId = FirstMatch(r.election.regions, r.at.point)]
    ELSE [r EXCEPT !.pc = "create"]

\* lines 80-116: the location block, then the required fields
BodyGate(r) ==
    IF LocationGate(r).pc = "create" THEN CustomFieldGate(LocationGate(r))
    ELSE LocationGate(r)

\* lines 20-44: body, election, phase
RegisterBegin(n) ==
    /\ reg[n].pc = "idle"
    /\ \E wellFormed \in BOOLEAN, shareCode \in ShareCodeInputs :
         IF ~wellFormed THEN RegRespond(n, "400_body")
         ELSE IF shareCode \notin ShareCodes THEN RegRespond(n, "404_election")
         ELSE IF getElectionPhase(elections[shareCode], now) # "registration"
              THEN reg' = [reg EXCEPT ![n].pc = "done", ![n].resp = "403_phase",
                                      ![n].election = elections[shareCode]]
         ELSE reg' = [reg EXCEPT ![n].pc = "find_existing",
                                 ![n].election = elections[shareCode]]
    /\ UNCHANGED <<now, elections, voters, votes, req, subject, libVars, derived, patch, reader, cache>>

\* lines 46-63, and lines 80-116 when no device lookup is made
RegisterFindExisting(n) ==
    /\ reg[n].pc = "find_existing"
    /\ \E email \in Emails, fingerprint \in Fingerprints,
          at \in CoordinatesFor(reg[n].election),
          values \in ValuesFor(reg[n].election) :
         LET existing == VotersWith(reg[n].election.id, "email", email)
             body == [reg[n] EXCEPT !.email = email, !.deviceFingerprint = fingerprint,
                                    !.at = at, !.customFieldValues = values]
         IN IF existing # {}
            THEN reg' = [reg EXCEPT ![n] =
                     [body EXCEPT !.pc = "done", !.resp = "409",
                         !.voterId = CHOOSE v \in existing : TRUE,
                         !.emailVerified = voters[CHOOSE v \in existing : TRUE].emailVerified]]
            ELSE IF reg[n].election.securityLevel # "casual" /\ fingerprint # "none"
            THEN reg' = [reg EXCEPT ![n] = [body EXCEPT !.pc = "find_device"]]
            ELSE reg' = [reg EXCEPT ![n] = BodyGate(body)]
    /\ UNCHANGED <<now, elections, voters, votes, req, subject, libVars, derived, patch, reader, cache>>

\* lines 65-78, then lines 80-116
RegisterFindDevice(n) ==
    /\ reg[n].pc = "find_device"
    /\ IF VotersWith(reg[n].election.id, "deviceFingerprint", reg[n].deviceFingerprint) # {}
       THEN RegRespond(n, "403_device")
       ELSE reg' = [reg EXCEPT ![n] = BodyGate(reg[n])]
    /\ UNCHANGED <<now, elections, voters, votes, req, subject, libVars, derived, patch, reader, cache>>

\* the Region rows of an election, by id
RegionIdsOf(election) == {election.regions[i].id : i \in 1..Len(election.regions)}

\* lines 118-144: the Voter row. The database refuses a second row for the
\* key electionId_email, and a regionId that names no Region row (Voter has
\* the relation `region`); both are caught at line 145: 500
RegisterCreate(n) ==
    /\ reg[n].pc = "create"
    /\ IF \/ VotersWith(reg[n].election.id, "email", reg[n].email) # {}
          \/ /\ reg[n].regionId # "none"
             /\ reg[n].regionId \notin RegionIdsOf(elections[reg[n].election.id])
       THEN RegRespond(n, "500") /\ UNCHANGED voters
       ELSE /\ voters' = voters @@ (NewVoterId :>
                     [electionId |-> reg[n].election.id, emailVerified |-> FALSE,
                      email |-> reg[n].email,
                      deviceFingerprint |-> reg[n].deviceFingerprint,
                      regionId |-> reg[n].regionId])
            /\ reg' = [reg EXCEPT ![n].pc = "done", ![n].resp = "200",
                                  ![n].voterId = NewVoterId]
    /\ UNCHANGED <<now, elections, votes, req, subject, libVars, derived, patch, reader, cache>>

RegisterStep(n) ==
    \/ RegisterBegin(n) \/ RegisterFindExisting(n)
    \/ RegisterFindDevice(n) \/ RegisterCreate(n)

(***************************************************************************)
(* A PATCH next to a voter registration: e1 open for registration, with    *)
(* no voter yet or with voters                                             *)
(***************************************************************************)
InitPatchRegister ==
    /\ now = FullDates.registrationStart
    /\ \E auto \in BOOLEAN, level \in {"casual", "standard"} :
         elections = [e \in ShareCodes |->
             IF e = "e1"
             THEN [Election("e1", "registration", auto, FullDates, FALSE)
                     EXCEPT !.securityLevel = level]
             ELSE Election("e2", "closed", FALSE, NoDates, TRUE)]
    /\ voters \in {Restrict(InitVoters, {"v3"}), InitVoters}
    /\ votes = {}
    /\ req = [r \in Requests |-> Idle]
    /\ subject = NoElection
    /\ derived = "none"
    /\ AdminIdle

\* one registration
NextPatchRegister ==
    \/ \E o \in PatchIds : PatchStep(o)
    \/ \E n \in {"n1"} : RegisterStep(n)

SpecPatchRegister == InitPatchRegister /\ [][NextPatchRegister]_vars

(***************************************************************************)
(* A PATCH next to a cast request: e1 opened for voting by its organizer,  *)
(* without voters, with voters, or with the ballot of v1 as well           *)
(***************************************************************************)
CastStep(r) ==
    \/ CastBegin(r) \/ CastFindVoter(r) \/ CastFindExisting(r)
    \/ TxDeleteScan(r) \/ TxDeleteRows(r) \/ TxCreate(r) \/ TxCommit(r)
    \/ CastFail(r)

InitPatchCast ==
    /\ now = 0
    /\ \E upd \in BOOLEAN :
         elections = [e \in ShareCodes |->
             IF e = "e1" THEN Election("e1", "voting", FALSE, FullDates, upd)
             ELSE Election("e2", "closed", FALSE, NoDates, TRUE)]
    /\ \E tables \in PatchTables : voters = tables.voters /\ votes = tables.votes
    /\ req = [r \in Requests |-> Idle]
    /\ subject = NoElection
    /\ derived = "none"
    /\ AdminIdle

\* one cast request: the first of Requests
NextPatchCast ==
    \/ \E o \in PatchIds : PatchStep(o)
    \/ \E r \in {s \in Requests : \A o \in Requests : s <= o} : CastStep(r)

SpecPatchCast == InitPatchCast /\ [][NextPatchCast]_vars

(***************************************************************************)
(* PATCH /api/elections/[id]: the region operations (lines 238-288), next  *)
(* to a voter registration                                                 *)
(*                                                                         *)
(* Region rows are kept in the election record, in the order               *)
(* `regions: true` returns them. region.geometry is the JSON text of a     *)
(* GeoRegion; the model keeps the GeoRegion that JSON.parse gives back.    *)
(* schema.prisma is not among the sources: Voter has the relation `region` *)
(* (the voter list includes it), so the database holds a foreign key from  *)
(* Voter.regionId to Region; what it does to the voters of a deleted       *)
(* region is left open between Prisma's default for an optional relation   *)
(* (SetNull) and a refusal (Restrict).                                     *)
(***************************************************************************)
Region(id, geometry, bufferMeters) ==
    [id |-> id, name |-> "t0", geometry |-> geometry, bufferMeters |-> bufferMeters]

\* a circle of radius 500 m with buffer 20 m around the origin, and a circle
\* of radius 100 m without buffer, 400 m to the east
R1 == Region("r1", Circle(<<0, 0>>, 500), 20)
R2 == Region("r2", Circle(<<400, 0>>, 100), 0)

RegionTables == {<<>>, <<R1>>, <<R1, R2>>, <<R2, R1>>}

NewRegionIds == {"r3"}

ReferentialActions == {"SetNull", "Restrict"}

\* each region operation: a new region without bufferMeters, a change of the
\* buffer, the geometry or the name of r1, of the buffer of a region the
\* election does not have, and the removal of either
RegionBodies ==
    {[NoBody EXCEPT !.keys = {"addRegion"}, !.label = "t1",
                    !.geometry = Circle(<<0, 0>>, 600),
                    !.given = {"name", "geometry"}]}
    \cup {[NoBody EXCEPT !.keys = {"updateRegion"}, !.target = r,
                         !.bufferMeters = 0, !.given = {"bufferMeters"}] :
            r \in {"r1", "r0"}}
    \cup {[NoBody EXCEPT !.keys = {"updateRegion"}, !.target = "r1",
                         !.geometry = Circle(<<0, 0>>, 400), !.given = {"geometry"}]}
    \cup {[NoBody EXCEPT !.keys = {"updateRegion"}, !.target = "r1",
                         !.label = "t1", !.given = {"name"}]}
    \cup {[NoBody EXCEPT !.keys = {"removeRegion"}, !.target = r] : r \in {"r1", "r0"}}

\* lines 239, 255, 274: the region operation the body asks for
RegionOpOf(body) ==
    IF Has(body, "addRegion") THEN "addRegion"
    ELSE IF Has(body, "updateRegion") THEN "updateRegion"
    ELSE IF Has(body, "removeRegion") THEN "removeRegion"
    ELSE "none"

\* lines 240 and 256 test hasVotes; removeRegion has no gate of this kind
RegionGate(op, hasVoters, hasVotes) ==
    IF op \in {"addRegion", "updateRegion"} /\ hasVotes THEN "400_has_votes" ELSE "ok"

\* the first database call of the branch; line 275 reads hasVoters
RegionFirstCall(op, hasVoters) ==
    CASE op = "addRegion" -> "region_create"
      [] op = "updateRegion" -> "find_region"
      [] op = "removeRegion" ->
            IF hasVoters THEN "count_region_voters" ELSE "region_delete"
      [] OTHER -> "update"

\* lines 60-127, 240, 256, 275 for a body with a region operation
PatchCheckRegion(o) ==
    /\ patch[o].pc = "check"
    /\ \E body \in RegionBodies :
         LET p == patch[o]
             phase == getElectionPhase(p.election, now)
             field == FieldGate(p.election, phase, p.hasVoters, p.hasVotes, body, now)
             gate == RegionGate(RegionOpOf(body), p.hasVoters, p.hasVotes)
         IN patch' = [patch EXCEPT ![o].body = body, ![o].phase = phase,
                ![o].pc = IF field = "ok" /\ gate = "ok"
                          THEN RegionFirstCall(RegionOpOf(body), p.hasVoters)
                          ELSE "done",
                ![o].resp = IF field # "ok" THEN field
                            ELSE IF gate # "ok" THEN gate ELSE "none"]
    /\ UNCHANGED <<now, elections, voters, votes, req, subject, libVars, derived,
                   reader, reg, cache>>

\* position of the region with this id in election.regions, 0 when absent
RegionIndex(election, id) ==
    IF id \in RegionIdsOf(election)
    THEN CHOOSE i \in 1..Len(election.regions) : election.regions[i].id = id
    ELSE 0

\* lines 243-253: the new Region row; bufferMeters ?? 20
PatchRegionCreate(o) ==
    /\ patch[o].pc = "region_create"
    /\ \E new \in NewRegionIds \ RegionIdsOf(elections[patch[o].id]) :
         elections' = [elections EXCEPT ![patch[o].id].regions = Append(@,
             [id |-> new, name |-> patch[o].body.label,
              geometry |-> patch[o].body.geometry,
              bufferMeters |-> IF "bufferMeters" \in patch[o].body.given
                               THEN patch[o].body.bufferMeters ELSE 20])]
    /\ Invalidate(patch[o].election.id)
    /\ PatchRespond(o, "200")
    /\ UNCHANGED <<now, voters, votes, req, subject, libVars, derived, reader, reg>>

\* lines 259-260
PatchFindRegion(o) ==
    /\ patch[o].pc = "find_region"
    /\ IF RegionIndex(elections[patch[o].id], patch[o].body.target) = 0
       THEN PatchRespond(o, "404")
       ELSE patch' = [patch EXCEPT ![o].pc = "region_update"]
    /\ UNCHANGED <<now, elections, voters, votes, req, subject, libVars, derived,
                   reader, reg, cache>>

\* lines 261-272: the fields the body defines are written to the row
PatchRegionUpdate(o) ==
    /\ patch[o].pc = "region_update"
    /\ LET body == patch[o].body
           i == RegionIndex(elections[patch[o].id], body.target)
       IN /\ i # 0
          /\ elections' = [elections EXCEPT ![patch[o].id].regions[i] =
                 [@ EXCEPT
                    !.name = IF "name" \in body.given THEN body.label ELSE @,
                    !.geometry = IF "geometry" \in body.given THEN body.geometry ELSE @,
                    !.bufferMeters = IF "bufferMeters" \in body.given
                                     THEN body.bufferMeters ELSE @]]
    /\ Invalidate(patch[o].election.id)
    /\ PatchRespond(o, "200")
    /\ UNCHANGED <<now, voters, votes, req, subject, libVars, derived, reader, reg>>

\* the voters of the election that are assigned to the region
RegionVoters(electionId, regionId) ==
    {v \in DOMAIN voters :
        voters[v].electionId = electionId /\ voters[v].regionId = regionId}

\* lines 276-282
PatchCountRegionVoters(o) ==
    /\ patch[o].pc = "count_region_voters"
    /\ IF RegionVoters(patch[o].id, patch[o].body.target) # {}
       THEN PatchRespond(o, "400_region_voters")
       ELSE patch' = [patch EXCEPT ![o].pc = "region_delete"]
    /\ UNCHANGED <<now, elections, voters, votes, req, subject, libVars, derived,
                   reader, reg, cache>>

\* lines 284-288: the Region row is deleted. With voters assigned to it, the
\* foreign key either sets their regionId to null or refuses the delete; the
\* handler catches nothing, so a refusal is answered 500.
PatchRegionDelete(o) ==
    /\ patch[o].pc = "region_delete"
    /\ LET id == patch[o].id
           target == patch[o].body.target
           i == RegionIndex(elections[id], target)
           assigned == IF i = 0 THEN {} ELSE RegionVoters(id, target)
       IN \E onDelete \in IF assigned = {} THEN {"SetNull"} ELSE ReferentialActions :
            IF onDelete = "Restrict"
            THEN PatchRespond(o, "500") /\ UNCHANGED <<elections, voters, cache>>
            ELSE /\ elections' = [elections EXCEPT ![id].regions =
                        SelectSeq(@, LAMBDA region : region.id # target)]
                 /\ voters' = [v \in DOMAIN voters |->
                        IF v \in assigned THEN [voters[v] EXCEPT !.regionId = "none"]
                        ELSE voters[v]]
                 /\ Invalidate(patch[o].election.id)
                 /\ PatchRespond(o, "200")
    /\ UNCHANGED <<now, votes, req, subject, libVars, derived, reader, reg>>

PatchRegionStep(o) ==
    \/ PatchFind(o) \/ PatchCheckRegion(o)
    \/ PatchRegionCreate(o)
    \/ PatchFindRegion(o) \/ PatchRegionUpdate(o)
    \/ PatchCountRegionVoters(o) \/ PatchRegionDelete(o)

\* e1 open for registration, casual or standard, with or without
\* requireLocation and with each table of regions; no voter of e1 yet, or v1
\* (assigned to r1 when the election has it) and v2, or the ballot of v1 as
\* well
InitRegion ==
    /\ now = FullDates.registrationStart
    /\ \E location \in BOOLEAN, regions \in RegionTables, tables \in PatchTables,
          level \in {"casual", "standard"} :
         /\ elections = [e \in ShareCodes |->
                IF e = "e1"
                THEN [Election("e1", "registration", FALSE, FullDates, FALSE)
                        EXCEPT !.requireLocation = location, !.regions = regions,
                               !.securityLevel = level]
                ELSE Election("e2", "closed", FALSE, NoDates, TRUE)]
         /\ voters = [v \in DOMAIN tables.voters |->
                IF v = "v1" /\ regions # <<>>
                THEN [tables.voters[v] EXCEPT !.regionId = "r1"]
                ELSE tables.voters[v]]
         /\ votes = tables.votes
    /\ req = [r \in Requests |-> Idle]
    /\ subject = NoElection
    /\ derived = "none"
    /\ AdminIdle

\* one PATCH with a region operation and one registration
NextRegion ==
    \/ \E o \in PatchIds : PatchRegionStep(o)
    \/ \E n \in {"n1"} : RegisterStep(n)

SpecRegion == InitRegion /\ [][NextRegion]_vars

(***************************************************************************)
(* Registrations next to each other: e1 open for registration, casual or   *)
(* standard, with no voter yet or with voters                              *)
(***************************************************************************)
InitRegister ==
    /\ now = FullDates.registrationStart
    /\ \E level \in {"casual", "standard"} :
         elections = [e \in ShareCodes |->
             IF e = "e1"
             THEN [Election("e1", "registration", FALSE, FullDates, FALSE)
                     EXCEPT !.securityLevel = level]
             ELSE Election("e2", "closed", FALSE, NoDates, TRUE)]
    /\ voters \in {Restrict(InitVoters, {"v3"}), InitVoters}
    /\ votes = {}
    /\ req = [r \in Requests |-> Idle]
    /\ subject = NoElection
    /\ derived = "none"
    /\ AdminIdle

NextRegister == \E n \in RegIds : RegisterStep(n)

SpecRegister == InitRegister /\ [][NextRegister]_vars

(***************************************************************************)
(* One registration for e1 in any phase, with or without regions, custom   *)
(* fields and a device check; v1 registered from the device f1             *)
(***************************************************************************)
InitRegisterFields ==
    /\ now \in {FullDates.registrationStart, FullDates.votingStart}
    /\ \E status \in {"draft", "registration", "voting"}, auto \in BOOLEAN,
          level \in {"casual", "standard"}, location \in BOOLEAN,
          customFields \in FieldTables :
         elections = [e \in ShareCodes |->
             IF e = "e1"
             THEN [Election("e1", status, auto, FullDates, FALSE)
                     EXCEPT !.securityLevel = level, !.requireLocation = location,
                            !.regions = <<R1>>, !.customFields = customFields]
             ELSE Election("e2", "closed", FALSE, NoDates, TRUE)]
    /\ voters = [v \in VoterIds |->
                   IF v = "v1" THEN [InitVoters[v] EXCEPT !.deviceFingerprint = "f1"]
                   ELSE InitVoters[v]]
    /\ votes = {}
    /\ req = [r \in Requests |-> Idle]
    /\ subject = NoElection
    /\ derived = "none"
    /\ AdminIdle

NextRegisterFields == RegisterStep("n1")

SpecRegisterFields == InitRegisterFields /\ [][NextRegisterFields]_vars

(***************************************************************************)
(* Properties of vote casting (under Spec)                                 *)
(***************************************************************************)
Accepted(r) == req[r].pc = "done" /\ req[r].resp = "200"

\* the request has passed the gates and holds the rows it is going to write
HoldsBallot(r) == req[r].pc = "find_existing" \/ InTransaction(r)

\* this step answers request r, with a response among `kinds`
Answers(r, kinds) == req[r].resp = "none" /\ req'[r].resp \in kinds

\* this step commits the transaction of request r
Commits(r) == req[r].pc = "tx_commit" /\ req'[r].pc = "done" /\ req'[r].resp = "200"

\* C1: every reachable Vote table holds at most one Vote per (voter, position),
\* also when cast requests of one voter run concurrently.
C1_OneVotePerVoterPosition ==
    \A x \in votes, y \in votes :
        (x.voterId = y.voterId /\ x.positionId = y.positionId) => x = y

\* C2: when a vote update commits, what a reader finds for the voter from then
\* on is the complete new ballot and nothing else: no vote of an older ballot
\* is left beside it. (Up to the commit the reader finds the table as it was.)
C2_UpdateReplacesBallot ==
    [][\A r \in Requests :
          (Commits(r) /\ req[r].isUpdate) =>
              VotesOfVoter(votes', req[r].election.id, req[r].voterId) = req[r].data]_vars

\* C3: with allowVoteUpdate = true, once two or more casts of one voter have
\* been accepted and none of that voter is still running, the voter's stored
\* votes are exactly the ballot of one of them (never the union of two).
C3_SerializedOutcome ==
    \A v \in VoterIds :
        LET accepted == {r \in Requests : Accepted(r) /\ req[r].voterId = v}
            running == {r \in Requests : HoldsBallot(r) /\ req[r].voterId = v}
        IN  (/\ Cardinality(accepted) >= 2
             /\ running = {}
             /\ \A r \in accepted : req[r].election.allowVoteUpdate)
            => \E r \in accepted :
                   VotesOfVoter(votes, req[r].election.id, v) = req[r].data

\* C4: with allowVoteUpdate = false, at most one cast of a voter is ever accepted.
C4_AtMostOneCastAccepted ==
    \A r1 \in Requests, r2 \in Requests :
        (/\ Accepted(r1) /\ Accepted(r2)
         /\ req[r1].voterId = req[r2].voterId
         /\ req[r1].election.id = req[r2].election.id
         /\ ~req[r1].election.allowVoteUpdate)
        => r1 = r2

\* C5: a cast request that fails (500) leaves the Vote table as it is, the
\* deletes of its transaction taken back; and the table only ever changes by a
\* commit that applies a transaction's deletes and its whole ballot together.
C5_FailureLeavesVotes ==
    /\ [][\A r \in Requests :
            Answers(r, {"500"}) => (votes' = votes /\ req[r].txDel \subseteq votes')]_vars
    /\ [][votes' # votes =>
            \E r \in Requests :
                /\ Commits(r)
                /\ votes' = (votes \ req[r].txDel) \cup req[r].data
                /\ req[r].data # {}]_vars

\* C5 witness: an update failed after its delete, and the deleted votes are there
C5_Witness ==
    \E r \in Requests :
        /\ req[r].resp = "500"
        /\ req[r].undone # {}
        /\ req[r].undone \subseteq votes

\* the rows name a position of the election once, with one of its candidates
ValidRows(rows, election) ==
    /\ \A x \in rows :
         /\ x.positionId \in DOMAIN election.positions
         /\ x.candidateId \in election.positions[x.positionId]
    /\ \A x \in rows, y \in rows : x.positionId = y.positionId => x = y

\* C6: a ballot that names a position twice, a position that is not the
\* election's or a candidate that is not the position's never gets past
\* validation, and the request that carries it is rejected with the Vote table
\* unchanged and nothing deleted.
C6_InvalidBallotRejected ==
    /\ [](\A r \in Requests :
            (HoldsBallot(r) \/ Accepted(r)) =>
                (req[r].data # {} /\ ValidRows(req[r].data, req[r].election)))
    /\ [][\A r \in Requests :
            Answers(r, {"400_duplicate", "400_position", "400_candidate"}) =>
                (votes' = votes /\ req[r].txDel = {} /\ req[r].pc = "find_voter")]_vars

\* C6 witness: with votes in the table, a ballot was rejected for a duplicate position
C6_Witness ==
    \E r \in Requests : req[r].resp = "400_duplicate" /\ votes # {}

\* C7: a request gets to the vote table only if the phase it resolved was
\* voting, and the table changes only by such a request; a request that
\* resolves any other phase is rejected with the table unchanged.
C7_OnlyInVotingPhase ==
    /\ [](\A r \in Requests :
            (req[r].pc = "find_voter" \/ HoldsBallot(r) \/ Accepted(r)) =>
                req[r].phase = "voting")
    /\ [][\A r \in Requests :
            (req[r].pc = "idle" /\ req'[r].pc = "find_voter") =>
                getElectionPhase(req'[r].election, now) = "voting"]_vars
    /\ [][\A r \in Requests :
            Answers(r, {"403_phase"}) =>
                /\ votes' = votes
                /\ req[r].pc = "idle"
                /\ req'[r].phase \in Phases \ {"voting"}]_vars
    /\ [][votes' # votes =>
            \E r \in Requests : Commits(r) /\ req[r].phase = "voting"]_vars

\* C7 witness: after a cast was accepted, one was refused because the election had closed
C7_Witness ==
    \E r1 \in Requests, r2 \in Requests :
        /\ Accepted(r1)
        /\ req[r2].resp = "403_phase"
        /\ req[r2].phase = "closed"

\* the voter of every row is a verified voter of the row's election
VerifiedVoterRows(rows) ==
    \A x \in rows :
        /\ x.voterId \in DOMAIN voters
        /\ voters[x.voterId].electionId = x.electionId
        /\ voters[x.voterId].emailVerified

\* C8: every Vote, written or about to be, belongs to a verified voter of the
\* election the request addressed; a request naming an absent voter, a voter of
\* another election or an unverified voter is rejected with the table unchanged.
C8_OnlyVerifiedVoters ==
    /\ [](/\ VerifiedVoterRows(votes)
          /\ \A r \in Requests :
               (HoldsBallot(r) \/ Accepted(r)) =>
                   /\ VerifiedVoterRows(req[r].data)
                   /\ \A x \in req[r].data :
                        x.voterId = req[r].voterId /\ x.electionId = req[r].election.id)
    /\ [][\A r \in Requests :
            Answers(r, {"404_voter", "403_unverified"}) =>
                (votes' = votes /\ req[r].pc = "find_voter")]_vars

\* C8 witness: with votes in the table, a cast was refused for an unverified voter
C8_Witness ==
    \E r \in Requests : req[r].resp = "403_unverified" /\ votes # {}

(***************************************************************************)
(* Properties of getElectionPhase (under SpecPhase)                        *)
(***************************************************************************)
\* C9: in auto mode with votingEnd set, the phase at any now > votingEnd is
\* closed, whatever the status and the other instants.
C9_ClosedPastVotingEnd ==
    (/\ derived # "none"
     /\ subject.autoTransition
     /\ IsSet(subject.votingEnd) /\ now > subject.votingEnd)
    => derived = "closed"

\* C9 as amended: the same for every status but draft (a draft stays draft).
C9_ClosedPastVotingEndUnlessDraft ==
    (/\ derived # "none"
     /\ subject.autoTransition
     /\ subject.status # "draft"
     /\ IsSet(subject.votingEnd) /\ now > subject.votingEnd)
    => derived = "closed"

\* C9 witness: an organizer-opened election with no votingStart, past its votingEnd
C9_Witness ==
    /\ derived = "closed"
    /\ subject.autoTransition
    /\ subject.status = "voting"
    /\ ~IsSet(subject.votingStart)
    /\ IsSet(subject.votingEnd) /\ now > subject.votingEnd

\* C10: in manual mode with status registration the phase is one of
\* before_registration, registration, between_phases: never voting, also when
\* now lies in [votingStart, votingEnd].
C10_ManualCeiling ==
    (/\ derived # "none"
     /\ ~subject.autoTransition
     /\ subject.status = "registration")
    => derived \in {"before_registration", "registration", "between_phases"}

\* C10 witness: status registration, manual, now inside the voting window
C10_Witness ==
    /\ derived \in {"before_registration", "registration", "between_phases"}
    /\ ~subject.autoTransition
    /\ subject.status = "registration"
    /\ InVoting(subject, now)

\* C11: in auto mode with status neither draft nor closed, votingStart set and
\* passed, and votingEnd unset or not yet passed, the phase is voting; for
\* status registration as for status voting, for votingEnd unset as for set.
C11_VotingOnceStarted ==
    (/\ derived # "none"
     /\ subject.autoTransition
     /\ subject.status \notin {"draft", "closed"}
     /\ IsSet(subject.votingStart) /\ subject.votingStart <= now
     /\ (~IsSet(subject.votingEnd) \/ subject.votingEnd >= now))
    => derived = "voting"

\* C12: status draft gives draft and status closed gives closed, for every
\* schedule, every mode and every now.
C12_DraftAndClosedIgnoreSchedule ==
    derived # "none" =>
        /\ subject.status = "draft" => derived = "draft"
        /\ subject.status = "closed" => derived = "closed"

\* C12 witness: a draft in auto mode, evaluated past its votingEnd
C12_Witness ==
    /\ derived = "draft"
    /\ subject.status = "draft"
    /\ subject.autoTransition
    /\ IsSet(subject.votingEnd) /\ now > subject.votingEnd

\* the closed and voting rules of auto mode (lines 14-23), none of which applies
NoVotingRule(election, t) ==
    /\ ~(IsSet(election.votingEnd) /\ t > election.votingEnd)
    /\ ~(/\ IsSet(election.votingStart) /\ t >= election.votingStart
         /\ IsSet(election.votingEnd) /\ t <= election.votingEnd)
    /\ ~(election.status = "voting"
         /\ (~IsSet(election.votingStart) \/ t >= election.votingStart))

C14_ManualVoting ==
    (/\ derived # "none"
     /\ ~subject.autoTransition
     /\ subject.status = "voting")
    => /\ derived \in {"voting", "closed"}
       /\ derived = "closed" <=> (IsSet(subject.votingEnd) /\ now > subject.votingEnd)

\* C14 witness: voting in manual mode before the configured votingStart
C14_Witness ==
    /\ derived = "voting"
    /\ ~subject.autoTransition
    /\ subject.status = "voting"
    /\ IsSet(subject.votingStart) /\ now < subject.votingStart

\* the order of the phases
PhaseRank ==
    [ph \in Phases |->
        CASE ph = "draft" -> 0
          [] ph = "before_registration" -> 1
          [] ph = "registration" -> 2
          [] ph = "between_phases" -> 3
          [] ph = "voting" -> 4
          [] ph = "closed" -> 5]

\* C16: with the record unchanged and a schedule validateElectionTimes
\* accepts, the phase never moves backward as now grows: a phase derived
\* later is not earlier in the order draft, before_registration,
\* registration, between_phases, voting, closed. In both modes, every status.
C16_PhaseNeverMovesBackward ==
    [][(derived # "none" /\ derived' # "none")
        => PhaseRank[derived] <= PhaseRank[derived']]_vars

(***************************************************************************)
(* Properties of PATCH                                                     *)
(***************************************************************************)
PatchRejections ==
    {"400_closed", "400_security_level", "400_require_location", "400_vote_update",
     "400_times_closed", "400_times", "400_has_votes", "400_has_voters"}

\* this step is the one in which PATCH request o reads its body and passes
\* or fails the gates
Checks(o) == patch[o].pc = "check" /\ patch'[o].pc # "check"

Rejected(o) == patch[o].pc = "done" /\ patch[o].resp \in PatchRejections

\* C15: closed is terminal. Once the derived phase of an election is closed,
\* by status or because votingEnd has passed, no step of a PATCH, of a status
\* read or of the clock leads to a state where it is anything but closed.
C15_ClosedIsTerminal ==
    [][\A e \in ShareCodes :
          getElectionPhase(elections[e], now) = "closed"
          => getElectionPhase(elections'[e], now') = "closed"]_vars

C18_SecuritySettingsFrozenByVoters ==
    /\ [][\A e \in ShareCodes :
            HasVoters(e) =>
                /\ elections'[e].securityLevel = elections[e].securityLevel
                /\ elections'[e].requireLocation = elections[e].requireLocation]_vars
    /\ [][\A o \in PatchIds :
            (/\ Checks(o)
             /\ Has(patch'[o].body, "securityLevel") \/ Has(patch'[o].body, "requireLocation")
             /\ HasVoters(patch[o].id))
            => (/\ patch'[o].pc = "done"
                /\ patch'[o].resp \in PatchRejections
                /\ elections' = elections)]_vars

\* C19: allowVoteUpdate never changes once the election has a Vote, however
\* PATCH requests and cast requests interleave: a PATCH that carries
\* allowVoteUpdate while a vote exists is rejected and changes nothing.
C19_VoteUpdatePolicyFrozenByVotes ==
    /\ [][\A e \in ShareCodes :
            HasVotes(e) => elections'[e].allowVoteUpdate = elections[e].allowVoteUpdate]_vars
    /\ [][\A o \in PatchIds :
            (/\ Checks(o)
             /\ Has(patch'[o].body, "allowVoteUpdate")
             /\ HasVotes(patch[o].id))
            => (/\ patch'[o].pc = "done"
                /\ patch'[o].resp \in PatchRejections
                /\ elections' = elections)]_vars

\* the positions and candidates of an election: which there are, and their
\* titles and names
Structure(election) == <<election.positions, election.labels>>

\* some position or candidate of `before` is no longer in `after`
Removes(before, after) == ~(DOMAIN before.labels \subseteq DOMAIN after.labels)

\* C20: addPosition, updatePosition, addCandidate and updateCandidate are
\* rejected once the election has a vote, removePosition and removeCandidate
\* once it has a voter, and a rejected request leaves positions and
\* candidates as they are: so nothing is added or edited in an election with
\* votes, and nothing removed from one with voters.
C20_PositionsFrozen ==
    /\ [][\A o \in PatchIds :
            (/\ Checks(o)
             /\ \/ /\ OpOf(patch'[o].body) \in {"addPosition", "updatePosition",
                                                "addCandidate", "updateCandidate"}
                   /\ HasVotes(patch[o].id)
                \/ /\ OpOf(patch'[o].body) \in {"removePosition", "removeCandidate"}
                   /\ HasVoters(patch[o].id))
            => (/\ patch'[o].pc = "done"
                /\ patch'[o].resp \in PatchRejections
                /\ elections' = elections)]_vars
    /\ [][\A e \in ShareCodes :
            Structure(elections'[e]) # Structure(elections[e]) =>
                IF Removes(elections[e], elections'[e])
                THEN ~HasVoters(e) ELSE ~HasVotes(e)]_vars

(***************************************************************************)
(* Properties of isPointInRegion (under SpecGeo)                           *)
(***************************************************************************)
\* C25: for a circle, isPointInRegion is true exactly when the distance from
\* the point to the centre is at most radius + bufferMeters, the boundary
\* included, whatever the radius >= 0 and the buffer >= 0.
C25_CircleContainment ==
    (probe.evaluated /\ probe.geometry.type = "circle") =>
        (probe.inside <=>
            haversineDistance2(probe.point, probe.geometry.center)
                <= (probe.geometry.radius + probe.bufferMeters)
                   * (probe.geometry.radius + probe.bufferMeters))

\* the closed area a ring bounds, said without rays: the rectangle and the
\* two rectangles the L is made of by their sides, the triangle by its three
\* half-planes
Covers(geometry, p) ==
    IF geometry = Rectangle
    THEN p[1] \in 0..MaxSide /\ p[2] \in 0..(MaxSide - 1)
    ELSE IF geometry = Triangle
    THEN p[1] >= 0 /\ p[2] >= 0 /\ p[1] + p[2] <= MaxSide
    ELSE \/ p[1] \in 0..MaxSide /\ p[2] \in 0..2
         \/ p[1] \in 0..2 /\ p[2] \in 0..MaxSide

\* some point of the segment a-b is within `metres` of p: the nearest point
\* is a when p lies behind a, b when it lies beyond b, and the foot of the
\* perpendicular otherwise
NearSegment(p, a, b, metres) ==
    LET along == (p[1] - a[1]) * (b[1] - a[1]) + (p[2] - a[2]) * (b[2] - a[2])
        length2 == haversineDistance2(a, b)
        across == (p[1] - a[1]) * (b[2] - a[2]) - (p[2] - a[2]) * (b[1] - a[1])
    IN IF along <= 0 THEN haversineDistance2(p, a) <= metres * metres
       ELSE IF along >= length2 THEN haversineDistance2(p, b) <= metres * metres
       ELSE across * across <= metres * metres * length2

NearRing(geometry, p, metres) ==
    \E i \in Edges(geometry.coordinates) :
        NearSegment(p, geometry.coordinates[i], geometry.coordinates[i + 1], metres)

\* C26: for a polygon or rectangle, isPointInRegion is true exactly when the
\* point is inside the ring, or the buffer is positive and some edge of the
\* ring is within the buffer of the point; with buffer 0 it is containment
\* and nothing else; and a point accepted with one buffer is accepted with
\* every larger one.
C26_RingContainment ==
    (probe.evaluated /\ probe.geometry.type \in {"polygon", "rectangle"}) =>
        /\ probe.inside <=>
              \/ Covers(probe.geometry, probe.point)
              \/ /\ probe.bufferMeters > 0
                 /\ NearRing(probe.geometry, probe.point, probe.bufferMeters)
        /\ probe.bufferMeters = 0 =>
              (probe.inside <=> Covers(probe.geometry, probe.point))
        /\ probe.inside =>
              \A wider \in probe.bufferMeters..(MaxBuffer + 1) :
                  isPointInRegion(probe.point, probe.geometry, wider)

\* a point outside the rectangle, beyond one of its corners and nearer than
\* the buffer to it, accepted by the buffer alone
C26_Witness ==
    /\ probe.evaluated /\ probe.inside
    /\ probe.geometry = Rectangle
    /\ probe.point = <<MaxSide + 1, MaxSide>>
    /\ probe.bufferMeters = 2
    /\ ~Covers(probe.geometry, probe.point)

(***************************************************************************)
(* Properties of the rate limiter (under SpecRateLimit)                    *)
(***************************************************************************)
\* the results the caller got for one key, in the order of the calls
ResultsFor(key) == SelectSeq(caller.results, LAMBDA r : r.key = key)

ClockInstants == {k * 500 : k \in 0..(MaxClock \div 500)}

\* the instants of the allowed calls of a key
AllowedAt(key) ==
    {ResultsFor(key)[i].at : i \in {j \in 1..Len(ResultsFor(key)) : ResultsFor(key)[j].allowed}}

C21_AssignedRegionStays ==
    /\ [][\A v \in DOMAIN voters :
            voters[v].regionId \in RegionIdsOf(elections[voters[v].electionId])
            => voters[v].regionId \in RegionIdsOf(elections'[voters[v].electionId])]_vars
    /\ [](\A v \in DOMAIN voters :
            voters[v].regionId # "none"
            => voters[v].regionId \in RegionIdsOf(elections[voters[v].electionId]))

\* the row of a region of the election
RegionRow(election, id) == election.regions[RegionIndex(election, id)]

\* C22: from the moment a voter is assigned to a region, no PATCH changes the
\* geometry, the bufferMeters or the name of that region.
C22_AssignedRegionImmutable ==
    [][\A v \in DOMAIN voters :
         LET e == voters[v].electionId
             r == voters[v].regionId
         IN (r \in RegionIdsOf(elections[e]) /\ r \in RegionIdsOf(elections'[e]))
            => RegionRow(elections'[e], r) = RegionRow(elections[e], r)]_vars

\* the Voter rows a step creates
Created == DOMAIN voters' \ DOMAIN voters

\* the registration that creates a row in this step
Creates(n) == reg[n].pc = "create" /\ reg'[n].resp = "200"

\* C23: a Voter created in an election with requireLocation = true has as
\* regionId the first region, in the order the election holds them, that
\* contains the coordinate sent; a registration whose coordinate is in no
\* region, or whose election has no region at all, creates no Voter.
C23_FirstMatchingRegion ==
    [][\A n \in RegIds :
         (Creates(n) /\ reg[n].election.requireLocation)
         => /\ reg[n].at.given
            /\ FirstMatch(reg[n].election.regions, reg[n].at.point) # "none"
            /\ \A w \in Created :
                 voters'[w].regionId =
                     FirstMatch(reg[n].election.regions, reg[n].at.point)]_vars

\* the registration is past the location block of lines 80-104, or was
\* rejected by it
LocationChecked(n) ==
    \/ reg[n].pc = "create"
    \/ reg[n].pc = "done" /\ reg[n].resp \in {"403_location", "200", "500"}

\* a registration in an election with requireLocation whose only region is
\* the circle of radius 500 m and buffer 20 m, sent from `metres` east of
\* its centre
Scenario(n, metres) ==
    /\ reg[n].election.requireLocation
    /\ reg[n].election.regions = <<R1>>
    /\ reg[n].at = [given |-> TRUE, point |-> <<metres, 0>>]
    /\ LocationChecked(n)

\* C24 as the scenario states it: from 510 m the registration is rejected as
\* not within any eligible region, from 480 m it is accepted with the voter
\* assigned to the region.
C24_Scenario ==
    \A n \in RegIds :
        /\ Scenario(n, 510) => reg[n].resp = "403_location"
        /\ Scenario(n, 480) => (reg[n].resp # "403_location" /\ reg[n].regionId = "r1")

\* C24 with the buffer counted in: 510 m is within 500 + 20 m, so the
\* registrations from 510 m and from 480 m are both accepted with the voter
\* assigned to the region, and the one from 530 m is rejected as not within
\* any eligible region.
C24_ScenarioWithBuffer ==
    \A n \in RegIds :
        /\ Scenario(n, 510) => (reg[n].resp # "403_location" /\ reg[n].regionId = "r1")
        /\ Scenario(n, 480) => (reg[n].resp # "403_location" /\ reg[n].regionId = "r1")
        /\ Scenario(n, 530) => reg[n].resp = "403_location"

\* the voter registered from 510 m, with the region as regionId
C24_Witness ==
    \E n \in RegIds :
        /\ Scenario(n, 510)
        /\ reg[n].resp = "200"
        /\ voters[reg[n].voterId].regionId = "r1"

(***************************************************************************)
(* Properties of registrations next to each other (under SpecRegister)     *)
(***************************************************************************)
\* a registration answers in this step
RegAnswers(n) == reg[n].resp = "none" /\ reg'[n].resp # "none"

\* C27: no two Voters of an election have the same email; a registration for
\* an email that a Voter of the election has creates no Voter, leaves the
\* Voter as it is, and is answered 409 with the id and the emailVerified flag
\* of that Voter.
C27_DuplicateEmailConflict ==
    /\ [](\A v \in DOMAIN voters, w \in DOMAIN voters :
            (voters[v].electionId = voters[w].electionId
             /\ voters[v].email = voters[w].email) => v = w)
    /\ [][\A n \in RegIds :
            (/\ RegAnswers(n)
             /\ reg'[n].email # "none"
             /\ VotersWith(reg'[n].election.id, "email", reg'[n].email) # {})
            => /\ voters' = voters
               /\ reg'[n].resp = "409"
               /\ reg'[n].voterId \in VotersWith(reg'[n].election.id, "email", reg'[n].email)
               /\ reg'[n].emailVerified = voters[reg'[n].voterId].emailVerified]_vars

\* C28: in an election of securityLevel standard or strict, no two Voters
\* have the same deviceFingerprint (other than none), however registrations
\* interleave.
C28_OneVoterPerDevice ==
    \A v \in DOMAIN voters, w \in DOMAIN voters :
        (/\ voters[v].electionId = voters[w].electionId
         /\ elections[voters[v].electionId].securityLevel # "casual"
         /\ voters[v].deviceFingerprint # "none"
         /\ voters[v].deviceFingerprint = voters[w].deviceFingerprint) => v = w


(***************************************************************************)
(* More properties of getElectionPhase (under SpecPhase)                   *)
(***************************************************************************)
\* C39: in auto mode, whatever the status and the rest of the schedule, the
\* phase derived at an instant before a votingStart that is set is not
\* voting.
C39_NoVotingBeforeStart ==
    (/\ derived # "none"
     /\ subject.autoTransition
     /\ IsSet(subject.votingStart)
     /\ now < subject.votingStart) => derived # "voting"

(***************************************************************************)
(* More properties of the rate limiter                                     *)
(***************************************************************************)
\* C31 (under SpecRateLimit): a denied call carries a retryAfterSeconds
\* between 1 and windowSeconds, and the first call on the same key made that
\* many seconds later or after, with no allowed call on the key in between,
\* is allowed, however many denied calls were made in between.
C31_RetryAfter ==
    \A key \in ClientKeys :
        LET results == ResultsFor(key)
        IN \A i \in 1..Len(results) :
             ~results[i].allowed =>
                /\ results[i].retryAfterSeconds \in 1..caller.config.windowSeconds
                /\ \A j \in (i + 1)..Len(results) :
                     (/\ results[j].at >= results[i].at + results[i].retryAfterSeconds * 1000
                      /\ \A k \in (i + 1)..(j - 1) : ~results[k].allowed)
                     => results[j].allowed

\* a call denied with half a second of the window left, another denied call
\* after it, and the call one second after the first denial allowed
C31_Witness ==
    \E key \in ClientKeys :
        LET results == ResultsFor(key)
        IN /\ Len(results) = 4
           /\ ~results[2].allowed /\ results[2].retryAfterSeconds = 1
           /\ (results[2].at - results[1].at) % 1000 = 500
           /\ ~results[3].allowed
           /\ results[4].allowed
           /\ results[4].at = results[2].at + 1000

\* the timestamps a key holds after calls at the instants `ats` when no
\* cleanup runs
RECURSIVE StoreAfter(_, _)
StoreAfter(ats, config) ==
    IF ats = <<>> THEN <<>>
    ELSE rateLimit(StoreAfter(SubSeq(ats, 1, Len(ats) - 1), config), config,
                   ats[Len(ats)]).timestamps

\* C32 (under SpecCleanup): wherever the cleanup timer runs in a sequence of
\* rateLimit calls, every call has the outcome and the retryAfterSeconds it
\* has in the same sequence without cleanup, whatever the limit and the
\* window.
C32_CleanupInvisible ==
    \A key \in ClientKeys :
        LET results == ResultsFor(key)
            ats == [i \in 1..Len(results) |-> results[i].at]
        IN \A i \in 1..Len(results) :
             LET expected == rateLimit(StoreAfter(SubSeq(ats, 1, i - 1), caller.config),
                                       caller.config, ats[i])
             IN /\ results[i].allowed = expected.allowed
                /\ results[i].retryAfterSeconds = expected.retryAfterSeconds

\* the same for the windows the cleanup cannot reach into, those of at most
\* 300 s
CleanupInvisibleShortWindow ==
    caller.config.windowSeconds <= 300 => C32_CleanupInvisible

(***************************************************************************)
(* Properties of the cache (under SpecCache and SpecDelete)                *)
(***************************************************************************)
\* the read g begins in this step
Begins(g) == reader[g].pc = "idle" /\ reader'[g].pc # "idle"

\* the read g begins in this step and is answered from the Map
Hit(g) == Begins(g) /\ reader'[g].from # "none"

\* the entry the read g finds under its key as it begins
Found(g) == cache[reader'[g].key]

\* C33 (under SpecCache): a call that finds an entry nobody invalidated and
\* begins less than ttl after the instant the entry was stored is served that
\* entry without the loader; a call that begins ttl or more after that
\* instant invokes the loader.
C33_ServedForTtlFromStore ==
    [][\A g \in ReaderIds :
         (Begins(g) /\ Found(g).present) =>
            IF now < reader[Found(g).by].storedAt + CacheTtl
            THEN /\ reader'[g].from = Found(g).by
                 /\ Found(g).data.id # "none" => reader'[g].election = Found(g).data
            ELSE reader'[g].pc = "fetch"]_vars

\* C34 (under SpecCache): whatever PATCH and the other read do, a value
\* served from the Map comes from a loader invoked less than ttl before the
\* call it is served to, and the call is before the expiry of the entry.
C34_BoundedStaleness ==
    [][\A g \in ReaderIds :
         Hit(g) =>
            /\ reader'[g].from = Found(g).by
            /\ now - reader[Found(g).by].started < CacheTtl
            /\ now < Found(g).expiresAt]_vars

\* a read answered from the entry the other read stored
C34_Witness ==
    \E g \in ReaderIds :
        /\ reader[g].pc = "done" /\ reader[g].resp = "200"
        /\ reader[g].from \in ReaderIds \ {g}

\* C35 (under SpecCache): once a PATCH has invalidated the key, the first call
\* to begin invokes the loader, and no call that begins is served a value read
\* from the database before the invalidation.
C35_InvalidateForcesReload ==
    [][\A g \in ReaderIds :
         (Begins(g) /\ Invalidated(reader'[g].key)) =>
            /\ (\A h \in ReaderIds \ {g} : ~reader[h].afterInvalidate)
                  => reader'[g].pc = "fetch"
            /\ Hit(g) => ~reader[Found(g).by].loadedBefore]_vars

\* C36 (under SpecDelete): a status read that begins after a PATCH or a DELETE
\* of the election was answered 200 is not served an entry stored before that
\* answer.
C36_MutationsInvalidate ==
    [][\A g \in ReaderIds :
         (Hit(g) /\ Mutated(reader'[g].key)) => ~reader[Found(g).by].storedBefore]_vars

(***************************************************************************)
(* Properties of the status sync (under SpecPatch)                         *)
(***************************************************************************)
\* the read g writes a status in this step
Syncs(g) ==
    /\ reader[g].pc = "sync" /\ reader'[g].pc = "done"
    /\ reader'[g].resp = "200"

\* C40: when the status read writes a status that is still the phase of the
\* record it read, the phase derived then from the row in the database is
\* that status, the row is not a draft, and the status written is not behind
\* the one it replaces, whatever PATCH does in between.
C40_SyncMirrorsDatabase ==
    [][\A g \in ReaderIds :
         (Syncs(g) /\ getElectionPhase(reader[g].election, now) = reader[g].phase) =>
            LET row == elections[reader[g].election.id]
            IN /\ getElectionPhase(row, now) = reader[g].phase
               /\ row.status # "draft"
               /\ PhaseRank[row.status] <= PhaseRank[reader[g].phase]]_vars


(***************************************************************************)
(* The order of the checks of a registration (under SpecRegisterFields)    *)
(***************************************************************************)
\* a required field of the election has no value, or a value of spaces only
MissingOrBlank(election, values) ==
    \E i \in 1..Len(election.customFields) :
        LET value == values[election.customFields[i].id]
        IN /\ election.customFields[i].isRequired
           /\ \/ value.type # "string"
              \/ \A k \in 1..Len(value.chars) : value.chars[k] = " "

\* the answer the order phase, email, device, location, required fields
\* gives to the body of r, for the election and the Voter rows as they are
Verdict(r, election) ==
    IF getElectionPhase(election, now) # "registration" THEN "403_phase"
    ELSE IF \E v \in DOMAIN voters :
                voters[v].electionId = election.id /\ voters[v].email = r.email
    THEN "409"
    ELSE IF /\ election.securityLevel # "casual" /\ r.deviceFingerprint # "none"
            /\ \E v \in DOMAIN voters :
                  /\ voters[v].electionId = election.id
                  /\ voters[v].deviceFingerprint = r.deviceFingerprint
    THEN "403_device"
    ELSE IF election.requireLocation /\ election.regions # <<>> /\ ~r.at.given
    THEN "400_location"
    ELSE IF /\ election.requireLocation /\ election.regions # <<>>
            /\ \A i \in 1..Len(election.regions) :
                  ~isPointInRegion(r.at.point, election.regions[i].geometry,
                                   election.regions[i].bufferMeters)
    THEN "403_location"
    ELSE IF MissingOrBlank(election, r.customFieldValues) THEN "400_field"
    ELSE "200"

Ordered(e) ==
    /\ (IsSet(e.registrationStart) /\ IsSet(e.registrationEnd))
          => e.registrationStart < e.registrationEnd
    /\ (IsSet(e.registrationEnd) /\ IsSet(e.votingStart))
          => e.registrationEnd <= e.votingStart
    /\ (IsSet(e.votingStart) /\ IsSet(e.votingEnd)) => e.votingStart < e.votingEnd
    /\ (IsSet(e.registrationStart) /\ IsSet(e.votingEnd))
          => e.registrationStart < e.votingEnd

\* C38: the schedule of every election in the database, created by POST and
\* changed by PATCH, is ordered: registrationStart < registrationEnd,
\* registrationEnd <= votingStart, votingStart < votingEnd and
\* registrationStart < votingEnd, for the instants that are set; and a PATCH
\* whose merged schedule is not ordered is rejected and changes no row.
C38_ScheduleOrdered ==
    /\ [](\A e \in ShareCodes : elections[e].id # "none" => Ordered(elections[e]))
    /\ [][\A o \in PatchIds :
            (/\ patch[o].pc = "check" /\ patch'[o].pc # "check"
             /\ IsTimeChange(patch'[o].body)
             /\ ~Ordered(MergedTimes(patch[o].election, patch'[o].body)))
            => /\ patch'[o].pc = "done"
               /\ patch'[o].resp \notin {"none", "200"}
               /\ elections' = elections]_vars

\* the same for PATCH alone, on elections whose schedule is ordered to begin
\* with
PatchKeepsOrder ==
    /\ [][\A e \in ShareCodes :
            (elections[e].id # "none" /\ Ordered(elections[e]) /\ patch' # patch)
            => Ordered(elections'[e])]_vars
    /\ [][\A o \in PatchIds :
            (/\ patch[o].pc = "check" /\ patch'[o].pc # "check"
             /\ IsTimeChange(patch'[o].body)
             /\ ~Ordered(MergedTimes(patch[o].election, patch'[o].body)))
            => /\ patch'[o].pc = "done"
               /\ patch'[o].resp \notin {"none", "200"}
               /\ elections' = elections]_vars

====
